---- MODULE Spec2Model ----
(***************************************************************************)
(* Model of the chex native layer (natch_fine): the column decoder and the *)
(* two block materializers of select.cpp, and the parameter binder of      *)
(* query.cpp.                                                              *)
(*                                                                         *)
(* Host terms (ERL_NIF_TERM) are tagged tuples:                            *)
(*   <<"nil">>  <<"uint", n>>  <<"int", n>>  <<"float", m>>                *)
(*   <<"bin", chars>>  <<"list", seq>>  <<"tuple", seq>>                   *)
(*   <<"map", set of <<key, value>>>>  <<"atom", name>>                    *)
(*   <<"garbage", g>>  an ERL_NIF_TERM that was never initialised          *)
(* std::string and binaries are sequences of one-character strings.        *)
(* A floating point number is the integer count of 10^-FloatDigits units.  *)
(***************************************************************************)
EXTENDS Integers, Sequences, FiniteSets, TLC

VARIABLES
  schema,      \* column names and types of the query's result
  stream,      \* the blocks the Executor delivers for the query, in order
  rpos,        \* client_select: number of blocks delivered to its callback
  all_maps,    \* client_select: std::vector<ERL_NIF_TERM> all_maps
  rst,         \* client_select: "running", "ok", "error" or "crashed"
  rresult,     \* client_select: the term returned (<<"none">> before)
  cpos,        \* client_select_cols: number of blocks delivered
  col_names,   \* client_select_cols: std::vector<std::string> col_names
  all_columns, \* client_select_cols: std::vector<std::vector<ERL_NIF_TERM>>
  first_block, \* client_select_cols: bool first_block
  cst,         \* client_select_cols: "running", "ok", "error" or "crashed"
  cresult,     \* client_select_cols: the term returned (<<"none">> before)
  query,       \* the Query resource: [st, sql, params]
  bind_ret,    \* what the last bind NIF returned or raised
  rt,          \* round trip of one literal: bind, store, decode
  dcol,        \* a column handed to the decoder on its own
  dlist,       \* the outcome of column_to_elixir_list(dcol)
  dtop,        \* the outcome of the materializers' decode of dcol
  conc,        \* select calls running side by side: [cb, log, ex]
  sends        \* how many times the Query was sent by a parameterized select

vars == <<schema, stream, rpos, all_maps, rst, rresult, cpos, col_names,
          all_columns, first_block, cst, cresult, query, bind_ret, rt,
          dcol, dlist, dtop, conc, sends>>

selectVars == <<schema, stream, rpos, all_maps, rst, rresult, cpos,
                col_names, all_columns, first_block, cst, cresult>>

rowVars == <<rpos, all_maps, rst, rresult>>

colVars == <<cpos, col_names, all_columns, first_block, cst, cresult>>

bindVars == <<query, bind_ret>>

decodeVars == <<dcol, dlist, dtop>>

concVars == <<conc, sends>>

nonSelectVars == <<query, bind_ret, rt, dcol, dlist, dtop, conc, sends>>

-----------------------------------------------------------------------------
(* Bounds of the model *)

MaxBlocks == 2

MaxRows == 2

MaxSeed == 1

-----------------------------------------------------------------------------
(* Generic helpers *)

Range(s) == {s[i] : i \in 1..Len(s)}

IsDistinct(s) == \A i, j \in 1..Len(s) : i # j => s[i] # s[j]

Min2(a, b) == IF a < b THEN a ELSE b

RECURSIVE Pow(_, _)
Pow(b, e) == IF e = 0 THEN 1 ELSE b * Pow(b, e - 1)

RECURSIVE Flatten(_)
Flatten(ss) == IF Len(ss) = 0 THEN <<>> ELSE Head(ss) \o Flatten(Tail(ss))

-----------------------------------------------------------------------------
(* Host terms *)

Nil == <<"nil">>

MakeUInt64(n) == <<"uint", n>>

MakeInt64(n) == <<"int", n>>

MakeDouble(m) == <<"float", m>>

MakeAtom(a) == <<"atom", a>>

MakeBinaryBorrowed(chars) == <<"view", chars>>

\* enif_alloc_binary + memcpy + enif_make_binary: an owned copy of the bytes
MakeBinaryCopy(chars) == <<"bin", [i \in 1..Len(chars) |-> chars[i]]>>

MakeListDroppingLast(s) == <<"list", SubSeq(s, 1, Len(s) - 1)>>

\* enif_make_list_from_array(env, v.data(), v.size())
MakeList(s) == <<"list", s>>

MakeTuple(s) == <<"tuple", s>>

NewMap == <<"map", {}>>

\* enif_make_map_from_arrays(env, keys, values, cnt, &map): succeeds only
\* when both arrays hold cnt elements and the keys are pairwise distinct
MapFromArraysOk(keys, vals, cnt) ==
  /\ Len(keys) >= cnt
  /\ Len(vals) >= cnt
  /\ IsDistinct(SubSeq(keys, 1, cnt))

MapFromArrays(keys, vals, cnt) ==
  <<"map", {<<keys[i], vals[i]>> : i \in 1..cnt}>>

-----------------------------------------------------------------------------
(* UUID formatting.  A uint64_t is four 16-bit limbs, most significant     *)
(* first, so that shifts by 16, 32 and 48 and the masks of the source are  *)
(* exact.                                                                  *)

HexCharsUpper == <<"0", "1", "2", "3", "4", "5", "6", "7",
                   "8", "9", "A", "B", "C", "D", "E", "F">>

HexChars == <<"0", "1", "2", "3", "4", "5", "6", "7",
              "8", "9", "a", "b", "c", "d", "e", "f">>

\* x >> (16 * k) on a four-limb value
ShiftRightLimbs(x, k) == [i \in 1..4 |-> IF i <= k THEN 0 ELSE x[i - k]]

\* x & (2^(16*n) - 1): the n least significant limbs
MaskLowLimbs(x, n) == SubSeq(x, 4 - n + 1, 4)

\* one limb printed as four lowercase hex digits, zero padded
HexLimb(v) ==
  << HexChars[((v \div 4096) % 16) + 1], HexChars[((v \div 256) % 16) + 1],
     HexChars[((v \div 16) % 16) + 1], HexChars[(v % 16) + 1] >>

\* "%0Nllx" of a value of n limbs whose field width is 4n digits
HexLimbs(x) == Flatten([i \in 1..Len(x) |-> HexLimb(x[i])])

format_uuid_to_buffer(uuid) ==
  LET high == uuid.first
      low == uuid.second
  IN  HexLimbs(MaskLowLimbs(ShiftRightLimbs(high, 2), 2)) \o <<"-">>
      \o HexLimbs(MaskLowLimbs(ShiftRightLimbs(high, 1), 1)) \o <<"-">>
      \o HexLimbs(MaskLowLimbs(high, 1)) \o <<"-">>
      \o HexLimbs(MaskLowLimbs(ShiftRightLimbs(low, 3), 1)) \o <<"-">>
      \o HexLimbs(MaskLowLimbs(low, 3))

-----------------------------------------------------------------------------
(* Columns of the clickhouse-cpp library, as the decoder reads them.       *)
(*   primitive      [code, data]            data[i] = At(i) / RawAt(i)     *)
(*   Decimal*       [code, data]            data[i] = [hi, lo]: the Int128 *)
(*                                          hi * 2^64 + (lo mod 2^64), lo  *)
(*                                          being the low 64 bits read as  *)
(*                                          a signed integer               *)
(*   UUID           [code, data]            data[i] = [first, second]      *)
(*   Enum8/16       [code, data, names]     names[i] = NameAt(i)           *)
(*   Array, Map     [code, rows]            rows[i] = GetAsColumn(i)       *)
(*   Tuple          [code, elems, size]     elems[j] = At(j)               *)
(*   LowCardinality [code, items]           items[i] = GetItem(i)          *)
(*   Nullable       [code, nulls, nested]   nulls[i] = IsNull(i)           *)

DecimalCodes == {"Decimal", "Decimal32", "Decimal64", "Decimal128"}

DataCodes ==
  {"UInt8", "UInt16", "UInt32", "UInt64", "Int8", "Int16", "Int32", "Int64",
   "Float32", "Float64", "String", "FixedString", "Date", "DateTime",
   "DateTime64", "UUID", "Enum8", "Enum16", "IPv4"} \cup DecimalCodes

\* Column::Size()
Size(col) ==
  CASE col.code \in DataCodes -> Len(col.data)
    [] col.code \in {"Array", "Map"} -> Len(col.rows)
    [] col.code = "Tuple" -> col.size
    [] col.code = "LowCardinality" -> Len(col.items)
    [] col.code = "Nullable" -> Len(col.nulls)

\* Column::Slice(begin, len), begin counted from 0
RECURSIVE Slice(_, _, _)
Slice(col, begin, len) ==
  LET n == Min2(len, Size(col) - begin)
      Sub(s) == SubSeq(s, begin + 1, begin + n)
  IN  CASE col.code \in {"Enum8", "Enum16"} ->
             [code |-> col.code, data |-> Sub(col.data),
              names |-> Sub(col.names)]
        [] col.code \in DataCodes \ {"Enum8", "Enum16"} ->
             [code |-> col.code, data |-> Sub(col.data)]
        [] col.code \in {"Array", "Map"} ->
             [code |-> col.code, rows |-> Sub(col.rows)]
        [] col.code = "Tuple" ->
             [code |-> "Tuple", size |-> n,
              elems |-> [j \in 1..Len(col.elems) |->
                           Slice(col.elems[j], begin, len)]]
        [] col.code = "LowCardinality" ->
             [code |-> col.code, items |-> Sub(col.items)]
        [] col.code = "Nullable" ->
             [code |-> col.code, nulls |-> Sub(col.nulls),
              nested |-> Slice(col.nested, begin, len)]

\* col->As<T>() is non-null exactly when the column object is a T; the
\* library has one class per type code, and ColumnDecimal for every Decimal
ColumnClass(col) ==
  IF col.code \in DecimalCodes THEN "ColumnDecimal" ELSE col.code

As(col, class) == ColumnClass(col) = class

-----------------------------------------------------------------------------
(* Outcome of a decode: the values produced, or the exception thrown.  ub  *)
(* records that the decode read an ERL_NIF_TERM that was never written or  *)
(* indexed a vector past its end (undefined behaviour).                    *)

Ok(v) == [st |-> "ok", v |-> v, ub |-> FALSE, msg |-> ""]

OkUB(v, ub) == [st |-> "ok", v |-> v, ub |-> ub, msg |-> ""]

Throw(msg) == [st |-> "throw", v |-> <<>>, ub |-> FALSE, msg |-> msg]

Garbage(g) == <<"garbage", g>>

AnyThrow(rs) == \E i \in 1..Len(rs) : rs[i].st = "throw"

FirstThrow(rs) ==
  rs[CHOOSE i \in 1..Len(rs) :
       rs[i].st = "throw" /\ \A j \in 1..(i - 1) : rs[j].st # "throw"]

AnyUB(rs) == \E i \in 1..Len(rs) : rs[i].ub

\* the per-row results of a loop, joined: the first exception ends the loop
Collect(rs) ==
  IF AnyThrow(rs) THEN FirstThrow(rs)
  ELSE OkUB([i \in 1..Len(rs) |-> rs[i].v], AnyUB(rs))

\* enif_get_list_cell walked over the first n cells of a list; a missing
\* cell is replaced by the atom error
ListCellsOrError(list, n) ==
  [i \in 1..n |-> IF i <= Len(list[2]) THEN list[2][i] ELSE MakeAtom("error")]

\* enif_get_list_cell walked over at most n cells, missing cells skipped
ListCellsPresent(list, n) == SubSeq(list[2], 1, Min2(n, Len(list[2])))

UnsupportedColumnType == "Unsupported column type in column_to_elixir_list"

UnsupportedLowCardinality == "Unsupported LowCardinality inner type"

UIntCodesAnyInteger ==
  {"UInt8", "UInt16", "UInt32", "UInt64", "DateTime", "Date",
   "Int8", "Int16", "Int32", "Int64"}

\* the types whose At(i), or RawAt(i) for Date, goes to enif_make_uint64
UIntCodes == {"UInt8", "UInt16", "UInt32", "UInt64", "DateTime", "Date"}

\* the types whose At(i) goes to enif_make_int64
IntCodes == {"Int8", "Int16", "Int32", "Int64", "DateTime64"}

FloatCodes == {"Float32", "Float64"}

NarrowInt128High(value) == value.hi

\* static_cast<int64_t>(Int128): the low 64 bits, read as a signed integer
NarrowInt128(value) == value.lo

\* the loops over a column of plain values
DecodeData(col, count) ==
  CASE col.code \in UIntCodes ->
         [i \in 1..count |-> MakeUInt64(col.data[i])]
    [] col.code \in IntCodes ->
         [i \in 1..count |-> MakeInt64(col.data[i])]
    [] col.code \in FloatCodes ->
         [i \in 1..count |-> MakeDouble(col.data[i])]
    [] col.code = "String" ->
         [i \in 1..count |-> MakeBinaryCopy(col.data[i])]
    [] col.code = "UUID" ->
         [i \in 1..count |->
            MakeBinaryCopy(SubSeq(format_uuid_to_buffer(col.data[i]), 1, 36))]
    [] col.code \in DecimalCodes ->
         [i \in 1..count |-> MakeInt64(NarrowInt128(col.data[i]))]
    [] col.code \in {"Enum8", "Enum16"} ->
         [i \in 1..count |-> MakeBinaryCopy(col.names[i])]

DecodeLowCardinalityItemLenient(item) ==
  IF item.type = "String" THEN Ok(MakeBinaryCopy(item.val)) ELSE Ok(Nil)

DecodeLowCardinalityItem(item) ==
  IF item.type = "String" THEN Ok(MakeBinaryCopy(item.val))
  ELSE IF item.type = "Void" THEN Ok(Nil)
  ELSE Throw(UnsupportedLowCardinality)

DecodeLowCardinality(col, count) ==
  Collect([i \in 1..count |-> DecodeLowCardinalityItem(col.items[i])])

RECURSIVE column_to_elixir_list(_, _)

DecodeArrayReversed(col, count, g) ==
  Collect([i \in 1..count |->
             column_to_elixir_list(col.rows[count - i + 1], g)])

\* case Type::Array: one recursive decode per row, of GetAsColumn(i)
DecodeArray(col, count, g) ==
  Collect([i \in 1..count |-> column_to_elixir_list(col.rows[i], g)])

TupleElementDecodesPerRow(col, g) ==
  LET tuple_size == Len(col.elems)
      rows == IF Size(col) = 0 THEN 1 ELSE Size(col)
  IN  [m \in 1..(tuple_size * rows) |->
         LET element_col == Slice(col.elems[((m - 1) % tuple_size) + 1],
                                  (m - 1) \div tuple_size, 1)
         IN  [of |-> element_col,
              list |-> column_to_elixir_list(element_col, g)]]

\* the first loop of case Type::Tuple, as the calls it makes: for each j,
\* column_to_elixir_list on the whole element column tuple_col->At(j)
TupleElementDecodes(col, g) ==
  [j \in 1..Len(col.elems) |->
     [of |-> col.elems[j], list |-> column_to_elixir_list(col.elems[j], g)]]

\* case Type::Tuple: the lists of the element columns walked into vectors,
\* then row i built from element i of every vector
DecodeTupleRows(count, tuple_size, decodes) ==
  LET lists == Collect([j \in 1..tuple_size |-> decodes[j].list])
      element_columns ==
        [j \in 1..tuple_size |-> ListCellsOrError(lists.v[j], count)]
  IN  IF lists.st = "throw" THEN lists
      ELSE OkUB([i \in 1..count |->
                   MakeTuple([j \in 1..tuple_size |-> element_columns[j][i]])],
                lists.ub)

DecodeTuple(col, count, g) ==
  DecodeTupleRows(count, Len(col.elems), TupleElementDecodes(col, g))

DecodeMapRow(kv_tuples, g) ==
  IF As(kv_tuples, "Tuple")
  THEN IF Len(kv_tuples.elems) < 2
       THEN OkUB(Garbage(g), TRUE)     \* tuple_col->At(1) past the end
       ELSE LET keys_col == kv_tuples.elems[1]
                values_col == kv_tuples.elems[2]
                map_size == Size(keys_col)
                keys_list == column_to_elixir_list(keys_col, g)
                values_list == column_to_elixir_list(values_col, g)
                key_terms == ListCellsPresent(keys_list.v, map_size)
                value_terms == ListCellsPresent(values_list.v, map_size)
            IN  IF keys_list.st = "throw" THEN keys_list
                ELSE IF values_list.st = "throw" THEN values_list
                ELSE IF MapFromArraysOk(key_terms, value_terms, map_size)
                THEN OkUB(MapFromArrays(key_terms, value_terms, map_size),
                          keys_list.ub \/ values_list.ub)
                ELSE OkUB(Garbage(g), TRUE)  \* elixir_map never written
  ELSE Ok(NewMap)

DecodeMap(col, count, g) ==
  Collect([i \in 1..count |-> DecodeMapRow(col.rows[i], g)])

DecodeNullableFallbackRowOffByOne(nested, i, g) ==
  LET single_value_col == Slice(nested, i, 1)
      elem_list == column_to_elixir_list(single_value_col, g)
  IN  IF elem_list.st = "throw" THEN elem_list
      ELSE OkUB(ListCellsOrError(elem_list.v, 1)[1], elem_list.ub)

\* nested->Slice(i, 1), column_to_elixir_list, head of the list
DecodeNullableFallbackRow(nested, i, g) ==
  LET single_value_col == Slice(nested, i - 1, 1)
      elem_list == column_to_elixir_list(single_value_col, g)
  IN  IF elem_list.st = "throw" THEN elem_list
      ELSE OkUB(ListCellsOrError(elem_list.v, 1)[1], elem_list.ub)

IsNullInverted(nullable_col, i) == ~nullable_col.nulls[i]

\* nullable_col->IsNull(i): the null bitmap of the column at row i
IsNull(nullable_col, i) == nullable_col.nulls[i]

\* the nested types the Nullable decode has a loop of its own for
FastNested(nested) ==
  As(nested, "UInt64") \/ As(nested, "Int64") \/ As(nested, "Float64")
    \/ As(nested, "String")

\* the loops specialized by nested type
DecodeNullableFast(col, count) ==
  LET nested == col.nested
  IN  IF As(nested, "UInt64")
      THEN Ok([i \in 1..count |->
                 IF IsNull(col, i) THEN Nil ELSE MakeUInt64(nested.data[i])])
      ELSE IF As(nested, "Int64")
      THEN Ok([i \in 1..count |->
                 IF IsNull(col, i) THEN Nil ELSE MakeInt64(nested.data[i])])
      ELSE IF As(nested, "Float64")
      THEN Ok([i \in 1..count |->
                 IF IsNull(col, i) THEN Nil ELSE MakeDouble(nested.data[i])])
      ELSE Ok([i \in 1..count |->
                 IF IsNull(col, i) THEN Nil ELSE MakeBinaryCopy(nested.data[i])])

\* the fallback loop: one row sliced out of the nested column and decoded
DecodeNullableFallback(col, count, g) ==
  Collect([i \in 1..count |->
             IF IsNull(col, i) THEN Ok(Nil)
             ELSE DecodeNullableFallbackRow(col.nested, i, g)])

DecodeNullable(col, count, g) ==
  IF FastNested(col.nested) THEN DecodeNullableFast(col, count)
  ELSE DecodeNullableFallback(col, count, g)

SupportedDataCodes ==
  UIntCodes \cup IntCodes \cup FloatCodes \cup DecimalCodes
    \cup {"String", "UUID", "Enum8", "Enum16"}

\* switch (type_code) of column_to_elixir_list; the result holds the list
column_to_elixir_list(col, g) ==
  LET count == Size(col)
      values ==
        CASE col.code \in SupportedDataCodes -> Ok(DecodeData(col, count))
          [] col.code = "Array" -> DecodeArray(col, count, g)
          [] col.code = "Tuple" -> DecodeTuple(col, count, g)
          [] col.code = "Map" -> DecodeMap(col, count, g)
          [] col.code = "LowCardinality" -> DecodeLowCardinality(col, count)
          [] col.code = "Nullable" -> DecodeNullable(col, count, g)
          [] OTHER -> Throw(UnsupportedColumnType)
  IN  IF values.st = "throw" THEN values
      ELSE OkUB(MakeList(values.v), values.ub)

\* the if / else-if chain of As<T>() tests that both materializers run on
\* a column of a block; no branch at all is taken for any other class, and
\* column_values stays empty
DecodeBlockColumn(col, row_count, g) ==
  IF \E class \in SupportedDataCodes \cup {"ColumnDecimal"} : As(col, class)
  THEN Ok(DecodeData(col, row_count))
  ELSE IF As(col, "Array") THEN DecodeArray(col, row_count, g)
  ELSE IF As(col, "Map") THEN DecodeMap(col, row_count, g)
  ELSE IF As(col, "Tuple") THEN DecodeTuple(col, row_count, g)
  ELSE IF As(col, "LowCardinality") THEN DecodeLowCardinality(col, row_count)
  ELSE IF As(col, "Nullable") THEN DecodeNullable(col, row_count, g)
  ELSE Ok(<<>>)

-----------------------------------------------------------------------------
(* The result sets the Executor can deliver: a schema (column names and    *)
(* ClickHouse types) and, per block, a row count and the cell contents.    *)
(* Cell k of a column is drawn from a small pool of raw values of its      *)
(* type; the seed of a block shifts the pool.                              *)

FloatDigits == 8

FloatUnit == Pow(10, FloatDigits)

TUInt8 == [code |-> "UInt8"]
TUInt16 == [code |-> "UInt16"]
TUInt32 == [code |-> "UInt32"]
TUInt64 == [code |-> "UInt64"]
TInt8 == [code |-> "Int8"]
TInt16 == [code |-> "Int16"]
TInt32 == [code |-> "Int32"]
TInt64 == [code |-> "Int64"]
TFloat32 == [code |-> "Float32"]
TFloat64 == [code |-> "Float64"]
TString == [code |-> "String"]
TFixedString == [code |-> "FixedString"]
TIPv4 == [code |-> "IPv4"]
TDate == [code |-> "Date"]
TDateTime == [code |-> "DateTime"]
TDateTime64 == [code |-> "DateTime64"]
TUUID == [code |-> "UUID"]
TDecimal == [code |-> "Decimal"]
TDecimal128 == [code |-> "Decimal128"]
TEnum8 == [code |-> "Enum8"]
TEnum16 == [code |-> "Enum16"]
TNullable(t) == [code |-> "Nullable", of |-> t]
TArray(t) == [code |-> "Array", of |-> t]
TLowCardinality(t) == [code |-> "LowCardinality", of |-> t]
TTuple(ts) == [code |-> "Tuple", of |-> ts]
TMap(k, v) == [code |-> "Map", k |-> k, v |-> v]

PoolAt(pool, k) == pool[(k % Len(pool)) + 1]

StringPool == << <<"a">>, <<>>, <<"b">>, <<"b">> >>

UuidPool ==
  << [first |-> <<258, 772, 1286, 1800>>,
      second |-> <<2314, 2828, 3342, 3856>>],
     [first |-> <<0, 0, 0, 0>>, second |-> <<0, 0, 0, 10>>],
     [first |-> <<65535, 65535, 65535, 65535>>,
      second |-> <<43981, 0, 4660, 65535>>] >>

DecimalPool ==
  << [hi |-> 0, lo |-> 1250], [hi |-> -1, lo |-> -5], [hi |-> 1, lo |-> 3] >>

EnumPool == << [val |-> 1, name |-> <<"o", "n">>],
               [val |-> 2, name |-> <<"o", "f", "f">>] >>

RawCell(code, k) ==
  CASE code \in {"UInt8", "UInt16", "UInt32", "UInt64", "IPv4"} ->
         PoolAt(<<0, 7, 255>>, k)
    [] code \in {"Int8", "Int16", "Int32", "Int64"} ->
         PoolAt(<<-1, 0, 127>>, k)
    [] code \in {"Float32", "Float64"} ->
         PoolAt(<<0, FloatUnit + (FloatUnit \div 2), 0 - (FloatUnit \div 4)>>, k)
    [] code \in {"String", "FixedString"} -> PoolAt(StringPool, k)
    [] code = "Date" -> PoolAt(<<0, 19000, 65535>>, k)
    [] code = "DateTime" -> PoolAt(<<0, 1700000000>>, k)
    [] code = "DateTime64" -> PoolAt(<<-1, 0, 1700000000>>, k)
    [] code = "UUID" -> PoolAt(UuidPool, k)
    [] code \in DecimalCodes -> PoolAt(DecimalPool, k)
    [] code \in {"Enum8", "Enum16"} -> PoolAt(EnumPool, k).val

\* ColumnLowCardinality::GetItem: the dictionary entry of the row
LowCardinalityItem(t, k) ==
  CASE t.code = "String" -> [type |-> "String", val |-> PoolAt(StringPool, k)]
    [] t.code = "Nullable" ->
         IF k % 2 = 1 THEN [type |-> "Void", val |-> <<>>]
         ELSE [type |-> "String", val |-> PoolAt(StringPool, k)]
    [] OTHER -> [type |-> t.code, val |-> PoolAt(StringPool, k)]

RECURSIVE MkCol(_, _, _)
MkCol(t, n, seed) ==
  LET K(i) == seed + i - 1
  IN  CASE t.code \in {"Enum8", "Enum16"} ->
             [code |-> t.code, data |-> [i \in 1..n |-> RawCell(t.code, K(i))],
              names |-> [i \in 1..n |-> PoolAt(EnumPool, K(i)).name]]
        [] t.code \in DataCodes \ {"Enum8", "Enum16"} ->
             [code |-> t.code, data |-> [i \in 1..n |-> RawCell(t.code, K(i))]]
        [] t.code = "Array" ->
             [code |-> "Array",
              rows |-> [i \in 1..n |-> MkCol(t.of, K(i) % 3, K(i))]]
        [] t.code = "Map" ->
             [code |-> "Map",
              rows |-> [i \in 1..n |->
                          [code |-> "Tuple", size |-> K(i) % 3,
                           elems |-> << MkCol(t.k, K(i) % 3, K(i)),
                                        MkCol(t.v, K(i) % 3, K(i)) >>]]]
        [] t.code = "Tuple" ->
             [code |-> "Tuple", size |-> n,
              elems |-> [j \in 1..Len(t.of) |-> MkCol(t.of[j], n, seed + j - 1)]]
        [] t.code = "LowCardinality" ->
             [code |-> "LowCardinality",
              items |-> [i \in 1..n |-> LowCardinalityItem(t.of, K(i))]]
        [] t.code = "Nullable" ->
             [code |-> "Nullable", nulls |-> [i \in 1..n |-> K(i) % 2 = 1],
              nested |-> MkCol(t.of, n, seed)]

Field(name, t) == [name |-> name, type |-> t]

Schemas ==
  { <<Field("a", TUInt64)>>,
    <<Field("a", TUInt8), Field("b", TInt16), Field("c", TUInt16),
      Field("d", TUInt32)>>,
    <<Field("a", TInt8), Field("b", TInt64), Field("c", TInt32),
      Field("d", TString)>>,
    <<Field("a", TFloat32), Field("b", TFloat64), Field("c", TDate),
      Field("d", TDateTime), Field("e", TDateTime64)>>,
    <<Field("a", TUUID), Field("b", TDecimal), Field("c", TDecimal128),
      Field("d", TEnum8), Field("e", TEnum16)>>,
    <<Field("a", TArray(TInt32)), Field("b", TArray(TArray(TInt32)))>>,
    <<Field("a", TArray(TFixedString))>>,
    <<Field("a", TTuple(<<TUInt8, TString>>))>>,
    <<Field("a", TTuple(<<TUInt8, TIPv4>>))>>,
    <<Field("a", TMap(TString, TUInt64)), Field("b", TMap(TUInt64, TString))>>,
    <<Field("a", TMap(TString, TFixedString))>>,
    <<Field("a", TLowCardinality(TString)),
      Field("b", TLowCardinality(TNullable(TString)))>>,
    <<Field("a", TLowCardinality(TFixedString))>>,
    <<Field("a", TNullable(TUInt64)), Field("b", TNullable(TInt64)),
      Field("c", TNullable(TFloat64)), Field("d", TNullable(TString))>>,
    <<Field("a", TNullable(TInt32)), Field("b", TNullable(TUUID))>>,
    <<Field("a", TNullable(TFixedString))>>,
    <<Field("a", TArray(TNullable(TString)))>>,
    <<Field("a", TFixedString)>>,
    <<Field("a", TUInt64), Field("b", TIPv4)>> }

\* a Block: GetColumnCount() = Len(columns), GetRowCount() = rows
MkBlock(sch, n, seed) ==
  [rows |-> n,
   columns |-> [c \in 1..Len(sch) |->
                  [name |-> sch[c].name,
                   col |-> MkCol(sch[c].type, n, seed + c - 1)]]]

Blocks(sch) == {MkBlock(sch, n, seed) : n \in 0..MaxRows, seed \in 0..MaxSeed}

RECURSIVE SeqsUpTo(_, _)
SeqsUpTo(S, n) ==
  IF n = 0 THEN {<<>>}
  ELSE LET shorter == SeqsUpTo(S, n - 1)
       IN  shorter \cup {Append(s, x) : s \in shorter, x \in S}

Streams(sch) == SeqsUpTo(Blocks(sch), MaxBlocks)

-----------------------------------------------------------------------------
(* The materializers.  What undefined behaviour does is chosen by the      *)
(* environment for each callback: the process crashes, or the read yields  *)
(* an arbitrary term.                                                      *)

UBOutcomes == {"crash", "junk"}

VecInsertAtBegin(v, xs) == xs \o v

\* std::vector::insert(v.end(), first, last)
VecInsertAtEnd(v, xs) == v \o xs

\* std::vector::reserve(n): storage for n elements is set aside; the elements
\* and the size stay as they are, and a later insert past n reallocates
VecReserve(v, n) == v

\* col_vec.reserve(row_count * 10)
ReservedBlocks == 10

\* col_data[c][r], an unchecked std::vector read
VecRead(v, r, g) == IF r <= Len(v) THEN v[r] ELSE Garbage(g)

NeverSkipsBlock(row_count) == FALSE

\* if (row_count == 0) return;
SkipsBlock(row_count) == row_count = 0

\* the rows (local vector) that block_to_maps_impl builds from col_data
BuildRows(col_names_, col_data, row_count, g) ==
  LET col_count == Len(col_names_)
      key_atoms == [c \in 1..col_count |-> MakeAtom(col_names_[c])]
  IN  [r \in 1..row_count |->
         LET values == [c \in 1..col_count |-> VecRead(col_data[c], r, g)]
         IN  IF MapFromArraysOk(key_atoms, values, col_count)
             THEN MapFromArrays(key_atoms, values, col_count)
             ELSE Garbage(g)]

\* block_to_maps_impl once every column is decoded into col_data
\* (decoded is the outcome of the loop over the columns)
BlockToMaps(block, out_maps, g, decoded) ==
  LET col_count == Len(block.columns)
      row_count == block.rows
      names == [c \in 1..col_count |-> block.columns[c].name]
      readsPastEnd == \E c \in 1..col_count : Len(decoded.v[c]) < row_count
      mapNotWritten == ~IsDistinct(names)
  IN  IF decoded.st = "throw"
      THEN [st |-> "throw", out |-> out_maps, msg |-> decoded.msg]
      ELSE IF (decoded.ub \/ readsPastEnd \/ mapNotWritten) /\ g = "crash"
      THEN [st |-> "crash", out |-> out_maps, msg |-> ""]
      ELSE [st |-> "ok", msg |-> "",
            out |-> VecInsertAtEnd(out_maps,
                                   BuildRows(names, decoded.v, row_count, g))]

DecodeBlockColumns(block, g) ==
  Collect([c \in 1..Len(block.columns) |->
             DecodeBlockColumn(block.columns[c].col, block.rows, g)])

block_to_maps_impl(block, out_maps, g) ==
  IF SkipsBlock(block.rows)
  THEN [st |-> "ok", out |-> out_maps, msg |-> ""]
  ELSE BlockToMaps(block, out_maps, g, DecodeBlockColumns(block, g))

NoResult == <<"none">>

RaisedAsEmptyList(msg) == MakeList(<<>>)

\* an exception leaving the callback unwinds Client::Select and the NIF,
\* which raises it to the caller
Raised(msg) == <<"raise", msg>>

\* what client_select does with the outcome r of its callback
RowsAfterCallback(r) ==
  CASE r.st = "ok" ->
         /\ all_maps' = r.out
         /\ rpos' = rpos + 1
         /\ UNCHANGED <<rst, rresult>>
    [] r.st = "throw" ->
         /\ rst' = "error"
         /\ rresult' = Raised(r.msg)
         /\ all_maps' = <<>>
         /\ UNCHANGED rpos
    [] r.st = "crash" ->
         /\ rst' = "crashed"
         /\ all_maps' = <<>>
         /\ UNCHANGED <<rpos, rresult>>

\* the callback of client_select, called by Client::Select for one block
RowsOnBlock ==
  /\ rst = "running"
  /\ rpos < Len(stream)
  /\ \E g \in UBOutcomes :
       RowsAfterCallback(block_to_maps_impl(stream[rpos + 1], all_maps, g))
  /\ UNCHANGED <<schema, stream, colVars, nonSelectVars>>

\* client_select after Client::Select returned: the list of all maps
RowsReturn ==
  /\ rst = "running"
  /\ rpos = Len(stream)
  /\ rresult' = IF Len(all_maps) = 0 THEN MakeList(<<>>)
                ELSE MakeList(all_maps)
  /\ rst' = "ok"
  /\ UNCHANGED <<schema, stream, rpos, all_maps, colVars, nonSelectVars>>

\* the lambda of client_select_cols once every column of the block is
\* decoded: the first-block initialisation and the appends
ColsAppend(block, names0, columns0, first0, g, decoded) ==
  LET col_count == Len(block.columns)
      names1 == IF first0 THEN [c \in 1..col_count |-> block.columns[c].name]
                ELSE names0
      columns1 == IF first0
                  THEN [c \in 1..col_count |->
                          VecReserve(<<>>, block.rows * ReservedBlocks)]
                  ELSE columns0
      pastEnd == col_count > Len(columns1)
      columns2 == [c \in 1..Len(columns1) |->
                     IF c <= col_count
                     THEN VecInsertAtEnd(columns1[c], decoded.v[c])
                     ELSE columns1[c]]
  IN  IF decoded.st = "throw"
      THEN [st |-> "throw", names |-> names1, columns |-> columns1,
            first |-> FALSE, msg |-> decoded.msg]
      ELSE IF (decoded.ub \/ pastEnd) /\ g = "crash"
      THEN [st |-> "crash", names |-> names1, columns |-> columns1,
            first |-> FALSE, msg |-> ""]
      ELSE [st |-> "ok", names |-> names1, columns |-> columns2,
            first |-> FALSE, msg |-> ""]

\* the lambda of client_select_cols applied to one block
cols_on_block(block, names0, columns0, first0, g) ==
  IF SkipsBlock(block.rows)
  THEN [st |-> "ok", names |-> names0, columns |-> columns0,
        first |-> first0, msg |-> ""]
  ELSE ColsAppend(block, names0, columns0, first0, g,
                  DecodeBlockColumns(block, g))

\* what client_select_cols does with the outcome r of its callback
ColsAfterCallback(r) ==
  CASE r.st = "ok" ->
         /\ col_names' = r.names
         /\ all_columns' = r.columns
         /\ first_block' = r.first
         /\ cpos' = cpos + 1
         /\ UNCHANGED <<cst, cresult>>
    [] r.st = "throw" ->
         /\ cst' = "error"
         /\ cresult' = Raised(r.msg)
         /\ col_names' = <<>>
         /\ all_columns' = <<>>
         /\ first_block' = r.first
         /\ UNCHANGED cpos
    [] r.st = "crash" ->
         /\ cst' = "crashed"
         /\ col_names' = <<>>
         /\ all_columns' = <<>>
         /\ first_block' = r.first
         /\ UNCHANGED <<cpos, cresult>>

ColsOnBlock ==
  /\ cst = "running"
  /\ cpos < Len(stream)
  /\ \E g \in UBOutcomes :
       ColsAfterCallback(cols_on_block(stream[cpos + 1], col_names,
                                       all_columns, first_block, g))
  /\ UNCHANGED <<schema, stream, rowVars, nonSelectVars>>

cols_result_empty_as_list(names, columns, g) ==
  LET num_columns == Len(columns)
      key_atoms == [c \in 1..Len(names) |-> MakeAtom(names[c])]
      values == [c \in 1..num_columns |-> MakeList(columns[c])]
  IN  IF num_columns = 0 THEN MakeList(<<>>)
      ELSE IF MapFromArraysOk(key_atoms, values, num_columns)
      THEN MapFromArrays(key_atoms, values, num_columns)
      ELSE Garbage(g)

\* client_select_cols after Client::Select returned: %{column_name => [values]}
cols_result(names, columns, g) ==
  LET num_columns == Len(columns)
      key_atoms == [c \in 1..Len(names) |-> MakeAtom(names[c])]
      values == [c \in 1..num_columns |-> MakeList(columns[c])]
  IN  IF MapFromArraysOk(key_atoms, values, num_columns)
      THEN MapFromArrays(key_atoms, values, num_columns)
      ELSE Garbage(g)

ColsReturn ==
  /\ cst = "running"
  /\ cpos = Len(stream)
  /\ \E g \in UBOutcomes :
       IF cols_result(col_names, all_columns, g) = Garbage("crash")
       THEN cst' = "crashed" /\ UNCHANGED cresult
       ELSE cst' = "ok" /\ cresult' = cols_result(col_names, all_columns, g)
  /\ UNCHANGED <<schema, stream, cpos, col_names, all_columns, first_block,
                 rowVars, nonSelectVars>>

NoQuery == [st |-> "none", sql |-> <<>>, params |-> {}]

NoBind ==
  [op |-> "none", name |-> "", value |-> <<>>, what |-> "",
   ret |-> <<"none">>]

NoRoundTrip == [phase |-> "off"]

NoColumn == [code |-> "none"]

NotDecoded == [st |-> "none", v |-> <<>>, ub |-> FALSE, msg |-> ""]

\* no select is running
SelectIdle ==
  /\ schema = <<>>
  /\ stream = <<>>
  /\ rpos = 0
  /\ all_maps = <<>>
  /\ rst = "idle"
  /\ rresult = NoResult
  /\ cpos = 0
  /\ col_names = <<>>
  /\ all_columns = <<>>
  /\ first_block = TRUE
  /\ cst = "idle"
  /\ cresult = NoResult

BindIdle == query = NoQuery /\ bind_ret = NoBind

RoundTripIdle == rt = NoRoundTrip

DecodeIdle == dcol = NoColumn /\ dlist = NotDecoded /\ dtop = NotDecoded

NoCallback == 0

\* no select calls run side by side
ConcIdle ==
  /\ conc = [cb |-> NoCallback, log |-> {}, ex |-> <<>>]
  /\ sends = 0

InitSelect ==
  /\ schema \in Schemas
  /\ stream \in Streams(schema)
  /\ rpos = 0
  /\ all_maps = <<>>
  /\ rst = "running"
  /\ rresult = NoResult
  /\ cpos = 0
  /\ col_names = <<>>
  /\ all_columns = <<>>
  /\ first_block = TRUE
  /\ cst = "running"
  /\ cresult = NoResult
  /\ BindIdle
  /\ RoundTripIdle
  /\ DecodeIdle
  /\ ConcIdle

Init == InitSelect

Next == RowsOnBlock \/ RowsReturn \/ ColsOnBlock \/ ColsReturn

Spec == Init /\ [][Next]_vars

-----------------------------------------------------------------------------
(* Properties of the materializers *)

Running(st) == st \in {"running", "ok"}

Sum(f, n) == LET RECURSIVE S(_)
                 S(k) == IF k = 0 THEN 0 ELSE f[k] + S(k - 1)
             IN  S(n)

\* the value stored under a key of a map term
MapGet(term, key) ==
  IF term[1] = "map" /\ \E p \in term[2] : p[1] = key
  THEN (CHOOSE p \in term[2] : p[1] = key)[2]
  ELSE <<"missing">>

MapKeys(term) == IF term[1] = "map" THEN {p[1] : p \in term[2]} ELSE {}

\* the values one block holds for column c, as the materializers decode them
BlockColumnValues(block, c) ==
  DecodeBlockColumn(block.columns[c].col, block.rows, "junk").v

\* decoding some column of the block raises
BlockRaises(block) ==
  /\ block.rows > 0
  /\ \E c \in 1..Len(block.columns), g \in UBOutcomes :
       DecodeBlockColumn(block.columns[c].col, block.rows, g).st = "throw"

\* grouping the records of the row-oriented result by column name
Pivot(rows, key) == MakeList([i \in 1..Len(rows) |-> MapGet(rows[i], key)])

\* C1: when both selects return for the same stream of blocks, pivoting the
\* records by column name gives exactly the columns of the column-oriented
\* result, for every column
C1_RowColumnEquivalence ==
  (rst = "ok" /\ cst = "ok") =>
    /\ \A p \in cresult[2] : p[2] = Pivot(rresult[2], p[1])
    /\ \A i \in 1..Len(rresult[2]) :
         MapKeys(rresult[2][i]) = MapKeys(cresult)

\* number of rows delivered by the blocks before block k
RowOffset(k) == Sum([j \in 1..Len(stream) |-> stream[j].rows], k - 1)

\* number of elements of column c decoded from the blocks before block k
ColOffset(c, k) ==
  Sum([j \in 1..Len(stream) |->
         IF stream[j].rows = 0 THEN 0
         ELSE Len(BlockColumnValues(stream[j], c))], k - 1)

C2_RowsInDeliveryOrder ==
  Running(rst) =>
    /\ Len(all_maps) = RowOffset(rpos + 1)
    /\ \A k \in 1..rpos : \A r \in 1..stream[k].rows :
         \A c \in 1..Len(schema) :
           MapGet(all_maps[RowOffset(k) + r], MakeAtom(schema[c].name))
             = VecRead(BlockColumnValues(stream[k], c), r, "junk")
    /\ rst = "ok" => rresult = MakeList(all_maps)

C2_ColumnsInDeliveryOrder ==
  Running(cst) =>
    \A c \in 1..Len(all_columns) :
      /\ Len(all_columns[c]) = ColOffset(c, cpos + 1)
      /\ \A k \in 1..cpos :
           stream[k].rows > 0 =>
             \A r \in 1..Len(BlockColumnValues(stream[k], c)) :
               all_columns[c][ColOffset(c, k) + r]
                 = BlockColumnValues(stream[k], c)[r]
      /\ cst = "ok" =>
           MapGet(cresult, MakeAtom(col_names[c])) = MakeList(all_columns[c])

\* C2: the records and the column elements stand in the accumulators in the
\* order the blocks were delivered and, within a block, in ascending row
\* order: the element of row r of the k-th block sits at the offset of the
\* k-th block plus r
C2_DeliveryOrder == C2_RowsInDeliveryOrder /\ C2_ColumnsInDeliveryOrder

C2_Witness ==
  /\ rst = "ok" /\ cst = "ok"
  /\ Len(stream) = 2
  /\ stream[1].rows = 2 /\ stream[2].rows = 2
  /\ Len(all_maps) = 4
  /\ all_maps[1] # all_maps[2] /\ all_maps[2] # all_maps[3]
  /\ Len(all_columns) > 0 /\ Len(all_columns[1]) = 4


NonEmptyBlocks(s) == SelectSeq(s, LAMBDA b : b.rows > 0)

\* client_select and client_select_cols run to completion on a stream in
\* which no callback crashes: the term returned, or the exception raised
RECURSIVE client_select(_, _)
client_select(s, maps) ==
  IF Len(s) = 0
  THEN IF Len(maps) = 0 THEN MakeList(<<>>) ELSE MakeList(maps)
  ELSE LET r == block_to_maps_impl(Head(s), maps, "junk")
       IN  IF r.st = "throw" THEN Raised(r.msg)
           ELSE client_select(Tail(s), r.out)

RECURSIVE client_select_cols(_, _, _, _)
client_select_cols(s, names, columns, first) ==
  IF Len(s) = 0 THEN cols_result(names, columns, "junk")
  ELSE LET r == cols_on_block(Head(s), names, columns, first, "junk")
       IN  IF r.st = "throw" THEN Raised(r.msg)
           ELSE client_select_cols(Tail(s), r.names, r.columns, r.first)

C3_ResultIgnoresEmptyBlocks ==
  /\ rst = "ok" => rresult = client_select(NonEmptyBlocks(stream), <<>>)
  /\ cst = "ok" =>
       cresult = client_select_cols(NonEmptyBlocks(stream), <<>>, <<>>, TRUE)

C3_EmptyBlockStep ==
  /\ (rpos' = rpos + 1 /\ stream[rpos + 1].rows = 0) => all_maps' = all_maps
  /\ (cpos' = cpos + 1 /\ stream[cpos + 1].rows = 0) =>
       /\ all_columns' = all_columns
       /\ col_names' = col_names
       /\ first_block' = first_block

\* C3: the callback leaves the accumulators of both materializers as they
\* are when the block has no rows, and the result of a select equals the
\* result of the same select on the stream without its empty blocks
C3_EmptyBlockContributesNothing ==
  [](C3_ResultIgnoresEmptyBlocks) /\ [][C3_EmptyBlockStep]_vars

C3_Witness ==
  /\ rst = "ok" /\ cst = "ok"
  /\ Len(stream) = 2
  /\ \E k \in 1..2 : stream[k].rows = 0 /\ stream[3 - k].rows > 0
  /\ Len(all_maps) > 0
  /\ Len(all_columns) > 0

\* C4: when decoding a column of some block of the stream raises, neither
\* select returns a result: the call ends in the error (or never returns),
\* and what it raises carries no rows
C4_AllOrNothing ==
  /\ (\E k \in 1..Len(stream) : BlockRaises(stream[k])) =>
       /\ rst # "ok" /\ rresult[1] # "list"
       /\ cst # "ok" /\ cresult[1] # "map"
  /\ rst = "error" =>
       /\ rresult[1] = "raise"
       /\ BlockRaises(stream[rpos + 1])
  /\ cst = "error" =>
       /\ cresult[1] = "raise"
       /\ BlockRaises(stream[cpos + 1])

C4_Witness ==
  /\ rst = "error" /\ cst = "error"
  /\ rpos = 1 /\ cpos = 1
  /\ stream[1].rows > 0
  /\ rresult = Raised(UnsupportedColumnType)
  /\ cresult = Raised(UnsupportedColumnType)

\* the decoder is handed a column whose type code it has no case for
RECURSIVE ReachesUnsupported(_)
ReachesUnsupported(col) ==
  CASE col.code \in SupportedDataCodes -> FALSE
    [] col.code = "LowCardinality" -> FALSE
    [] col.code \in {"Array", "Map"} ->
         \E i \in 1..Len(col.rows) : ReachesUnsupported(col.rows[i])
    [] col.code = "Tuple" ->
         \E j \in 1..Len(col.elems) : ReachesUnsupported(col.elems[j])
    [] col.code = "Nullable" ->
         \E i \in 1..Len(col.nulls) :
           ~col.nulls[i] /\ ReachesUnsupported(Slice(col.nested, i - 1, 1))
    [] OTHER -> TRUE

BlockReachesUnsupported(block) ==
  /\ block.rows > 0
  /\ \E c \in 1..Len(block.columns) :
       ReachesUnsupported(block.columns[c].col)

\* C5: a block with a column of an unsupported type, at the top level or
\* nested, is never decoded: the callback of neither materializer returns
\* normally from such a block
C5_UnsupportedIsHardFailure ==
  /\ Running(rst) => \A k \in 1..rpos : ~BlockReachesUnsupported(stream[k])
  /\ Running(cst) => \A k \in 1..cpos : ~BlockReachesUnsupported(stream[k])

-----------------------------------------------------------------------------
(* The decoder on its own: one column of any type is handed once to        *)
(* column_to_elixir_list and once to the decode of the materializers.      *)

DecodeTypes ==
  { TUInt8, TUInt16, TUInt32, TUInt64, TInt8, TInt16, TInt32, TInt64,
    TFloat32, TFloat64, TString, TFixedString, TIPv4, TDate, TDateTime,
    TDateTime64, TUUID, TDecimal, TDecimal128, TEnum8, TEnum16,
    TArray(TInt32), TArray(TArray(TInt32)), TArray(TFixedString),
    TArray(TNullable(TString)), TArray(TString),
    TTuple(<<TUInt8, TString>>), TTuple(<<TUInt8, TIPv4>>),
    TTuple(<<TArray(TInt32), TNullable(TInt64), TString>>),
    TMap(TString, TUInt64), TMap(TUInt64, TString),
    TMap(TString, TFixedString), TMap(TString, TArray(TInt32)),
    TLowCardinality(TString), TLowCardinality(TNullable(TString)),
    TLowCardinality(TFixedString),
    TNullable(TUInt64), TNullable(TInt64), TNullable(TFloat64),
    TNullable(TString), TNullable(TInt32), TNullable(TUInt8),
    TNullable(TFloat32), TNullable(TDate), TNullable(TDateTime),
    TNullable(TDateTime64), TNullable(TUUID), TNullable(TDecimal),
    TNullable(TEnum8), TNullable(TFixedString), TNullable(TIPv4) }

DecodeInputs ==
  {MkCol(t, n, seed) : t \in DecodeTypes, n \in 0..MaxRows,
                       seed \in 0..(MaxSeed + 1)}

InitDecode ==
  /\ SelectIdle
  /\ BindIdle
  /\ RoundTripIdle
  /\ dcol \in DecodeInputs
  /\ dlist = NotDecoded
  /\ dtop = NotDecoded
  /\ ConcIdle

\* column_to_elixir_list(env, col)
DecodeList ==
  /\ dcol # NoColumn
  /\ dlist.st = "none"
  /\ \E g \in UBOutcomes : dlist' = column_to_elixir_list(dcol, g)
  /\ UNCHANGED <<selectVars, bindVars, rt, dcol, dtop, concVars>>

\* the decode of one top-level column in block_to_maps_impl and
\* client_select_cols
DecodeTop ==
  /\ dcol # NoColumn
  /\ dtop.st = "none"
  /\ \E g \in UBOutcomes : dtop' = DecodeBlockColumn(dcol, Size(dcol), g)
  /\ UNCHANGED <<selectVars, bindVars, rt, dcol, dlist, concVars>>

NextDecode == DecodeList \/ DecodeTop

SpecDecode == InitDecode /\ [][NextDecode]_vars

\* C6: a Nullable column decodes row i to nil exactly when its null bitmap
\* marks row i, whatever the nested type, in column_to_elixir_list and in
\* the decode of the materializers
C6_NullIffBitmap ==
  dcol.code = "Nullable" =>
    /\ dlist.st = "ok" =>
         /\ Len(dlist.v[2]) = Len(dcol.nulls)
         /\ \A i \in 1..Len(dcol.nulls) :
              (dlist.v[2][i] = Nil) <=> dcol.nulls[i]
    /\ dtop.st = "ok" =>
         /\ Len(dtop.v) = Len(dcol.nulls)
         /\ \A i \in 1..Len(dcol.nulls) : (dtop.v[i] = Nil) <=> dcol.nulls[i]

C6_Witness ==
  /\ dcol.code = "Nullable"
  /\ dcol.nested.code = "Int32"
  /\ \E i, j \in 1..Len(dcol.nulls) : dcol.nulls[i] /\ ~dcol.nulls[j]
  /\ dlist.st = "ok"
  /\ dtop.st = "ok"
  /\ Nil \in Range(dlist.v[2])
  /\ \E x \in Range(dtop.v) : x # Nil

-----------------------------------------------------------------------------
(* The parameter binder (query.cpp).  A Query is [st, sql, params]: the    *)
(* SQL template as a sequence of characters and the bindings as a set of   *)
(* <<name, value>> pairs, at most one per name.  A value is the empty      *)
(* optional or a text.                                                     *)

\* std::optional<std::string> holding a text
QueryParamText(text) == <<"text", text>>

QueryParamValueEmptyText == QueryParamText(<<>>)

\* QueryParamValue(): the empty optional
QueryParamValue == <<"nullopt">>

DigitChars == <<"0", "1", "2", "3", "4", "5", "6", "7", "8", "9">>

RECURSIVE Digits(_)
Digits(n) ==
  IF n < 10 THEN <<DigitChars[n + 1]>>
  ELSE Digits(n \div 10) \o <<DigitChars[(n % 10) + 1]>>

\* std::to_string of an integer
to_string(value) ==
  IF value < 0 THEN <<"-">> \o Digits(0 - value) ELSE Digits(value)

ToStringFracDigits == 6

RECURSIVE PadDigits(_, _)
PadDigits(n, width) ==
  IF width = 0 THEN <<>>
  ELSE PadDigits(n \div 10, width - 1) \o <<DigitChars[(n % 10) + 1]>>

\* std::to_string of a double: printf "%f", six digits after the point,
\* rounded to nearest, ties to even
to_string_double(value) ==
  LET a == IF value < 0 THEN 0 - value ELSE value
      cut == Pow(10, FloatDigits - ToStringFracDigits)
      whole == a \div FloatUnit
      frac == (a % FloatUnit) \div cut
      rest == (a % FloatUnit) % cut
      up == (2 * rest > cut) \/ (2 * rest = cut /\ frac % 2 = 1)
      scaled == whole * Pow(10, ToStringFracDigits) + frac
                  + (IF up THEN 1 ELSE 0)
      text == Digits(scaled \div Pow(10, ToStringFracDigits)) \o <<".">>
                \o PadDigits(scaled % Pow(10, ToStringFracDigits),
                             ToStringFracDigits)
  IN  IF value < 0 THEN <<"-">> \o text ELSE text

FloatMantissaBits == 24

RECURSIVE BitLength(_)
BitLength(n) == IF n = 0 THEN 0 ELSE 1 + BitLength(n \div 2)

\* static_cast<float>(value): a double is k / 2^FloatDigits, that is k
\* times 5^FloatDigits units; k is rounded to 24 significant bits
static_cast_float(value) ==
  LET dyadic == Pow(5, FloatDigits)
      a == IF value < 0 THEN 0 - value ELSE value
      k == a \div dyadic
      s == BitLength(k) - FloatMantissaBits
      q == k \div Pow(2, s)
      r == k % Pow(2, s)
      up == (2 * r > Pow(2, s)) \/ (2 * r = Pow(2, s) /\ q % 2 = 1)
      rounded == IF s <= 0 THEN k
                 ELSE (q + (IF up THEN 1 ELSE 0)) * Pow(2, s)
  IN  IF value < 0 THEN 0 - (rounded * dyadic) ELSE rounded * dyadic

SetParamInterpolating(q, name, value) ==
  [q EXCEPT !.sql = q.sql \o (IF value = QueryParamValue THEN <<>>
                              ELSE value[2])]

\* Query::SetParam(name, value) when the Query accepts it: the binding of
\* the name is inserted or replaced
SetParam(q, name, value) ==
  [q EXCEPT !.params = {p \in q.params : p[1] # name} \cup {<<name, value>>}]

\* what Query::SetParam may do: accept the binding, or raise
SetParamErrors == {"UnknownParameter", "AlreadyExecuted"}

SetParamOutcomes == {"accepted"} \cup SetParamErrors

BindCatchSwallowing(kind, name, what) == MakeAtom("ok")

\* catch (const std::exception& e) of a bind: rethrows with the kind of
\* the bind, the parameter name and e.what()
BindCatch(kind, name, what) ==
  Raised(<<"Failed to bind ", kind, " parameter '", name, "': ", what>>)

TrySetParamDroppingOthers(kind, q, name, value, what) ==
  IF what = "accepted"
  THEN [query |-> SetParam([q EXCEPT !.params = {}], name, value),
        ret |-> MakeAtom("ok")]
  ELSE [query |-> q, ret |-> BindCatch(kind, name, what)]

\* the body shared by every bind: try { SetParam; return ok } catch
TrySetParam(kind, q, name, value, what) ==
  IF what = "accepted"
  THEN [query |-> SetParam(q, name, value), ret |-> MakeAtom("ok")]
  ELSE [query |-> q, ret |-> BindCatch(kind, name, what)]

query_bind_uint64(q, name, value, what) ==
  TrySetParam("UInt64", q, name, QueryParamText(to_string(value)), what)

query_bind_int64(q, name, value, what) ==
  TrySetParam("Int64", q, name, QueryParamText(to_string(value)), what)

query_bind_int32(q, name, value, what) ==
  TrySetParam("Int32", q, name, QueryParamText(to_string(value)), what)

query_bind_uint32(q, name, value, what) ==
  TrySetParam("UInt32", q, name, QueryParamText(to_string(value)), what)

query_bind_float64(q, name, value, what) ==
  TrySetParam("Float64", q, name,
              QueryParamText(to_string_double(value)), what)

query_bind_float32(q, name, value, what) ==
  TrySetParam("Float32", q, name,
              QueryParamText(to_string_double(static_cast_float(value))),
              what)

query_bind_string(q, name, value, what) ==
  TrySetParam("String", q, name, QueryParamText(value), what)

query_bind_datetime(q, name, timestamp, what) ==
  TrySetParam("DateTime", q, name, QueryParamText(to_string(timestamp)),
              what)

query_bind_date(q, name, days, what) ==
  TrySetParam("Date", q, name, QueryParamText(to_string(days)), what)

query_bind_datetime64(q, name, microseconds, what) ==
  TrySetParam("DateTime64", q, name,
              QueryParamText(to_string(microseconds)), what)

query_bind_null(q, name, what) ==
  TrySetParam("NULL", q, name, QueryParamValue, what)

-----------------------------------------------------------------------------
(* The binder as a state machine: one Query is created, then any sequence  *)
(* of binds is applied to it.  bind_ret records the last call: the bind,   *)
(* its arguments, what Query::SetParam did, and what the call returned.    *)

Names == {"x", "y"}

SqlPool ==
  { <<"S", "E", "L", "E", "C", "T", " ", "{", "x", ":", "S", "t", "r", "i",
      "n", "g", "}">>,
    <<"S", "E", "L", "E", "C", "T", " ", "{", "x", ":", "I", "n", "t", "6",
      "4", "}", ",", " ", "{", "y", ":", "N", "u", "l", "l", "a", "b", "l",
      "e", "(", "S", "t", "r", "i", "n", "g", ")", "}">> }

InjectionText ==
  <<"'", ";", " ", "D", "R", "O", "P", " ", "T", "A", "B", "L", "E", " ",
    "x", ";", " ", "-", "-">>

UnsignedValues == {0, 42}

SignedValues == {-7, 42}

FloatValues ==
  {0, FloatUnit + (FloatUnit \div 2), 0 - (FloatUnit \div 4),
   FloatUnit \div 256}

StringValues == {<<>>, <<"a">>, InjectionText}

CreateErrors == {"std::bad_alloc"}

\* fine::make_resource<Query>(sql)
query_create(sql) == [st |-> "created", sql |-> sql, params |-> {}]

QueryCreate ==
  /\ query.st = "none"
  /\ \E sql \in SqlPool :
       \/ /\ query' = query_create(sql)
          /\ bind_ret' = [NoBind EXCEPT !.op = "create", !.value = sql,
                                        !.what = "accepted",
                                        !.ret = <<"resource">>]
       \/ \E what \in CreateErrors :
            /\ query' = query
            /\ bind_ret' =
                 [NoBind EXCEPT !.op = "create", !.value = sql,
                                !.what = what,
                                !.ret = Raised(<<"Failed to create query: ",
                                                 what>>)]
  /\ UNCHANGED <<selectVars, rt, decodeVars, concVars>>

\* the effect of one bind call on the Query and on the caller
Bound(op, name, value, what, r) ==
  /\ query' = r.query
  /\ bind_ret' = [op |-> op, name |-> name, value |-> value, what |-> what,
                  ret |-> r.ret]
  /\ UNCHANGED <<selectVars, rt, decodeVars, concVars>>

BindUInt64 ==
  /\ query.st = "created"
  /\ \E name \in Names, value \in UnsignedValues, what \in SetParamOutcomes :
       Bound("UInt64", name, value, what,
             query_bind_uint64(query, name, value, what))

BindInt64 ==
  /\ query.st = "created"
  /\ \E name \in Names, value \in SignedValues, what \in SetParamOutcomes :
       Bound("Int64", name, value, what,
             query_bind_int64(query, name, value, what))

BindInt32 ==
  /\ query.st = "created"
  /\ \E name \in Names, value \in SignedValues, what \in SetParamOutcomes :
       Bound("Int32", name, value, what,
             query_bind_int32(query, name, value, what))

\* the value of query_bind_uint32 is an int64_t: it may be negative
BindUInt32 ==
  /\ query.st = "created"
  /\ \E name \in Names, value \in SignedValues, what \in SetParamOutcomes :
       Bound("UInt32", name, value, what,
             query_bind_uint32(query, name, value, what))

BindFloat64 ==
  /\ query.st = "created"
  /\ \E name \in Names, value \in FloatValues, what \in SetParamOutcomes :
       Bound("Float64", name, value, what,
             query_bind_float64(query, name, value, what))

BindFloat32 ==
  /\ query.st = "created"
  /\ \E name \in Names, value \in FloatValues, what \in SetParamOutcomes :
       Bound("Float32", name, value, what,
             query_bind_float32(query, name, value, what))

BindString ==
  /\ query.st = "created"
  /\ \E name \in Names, value \in StringValues, what \in SetParamOutcomes :
       Bound("String", name, value, what,
             query_bind_string(query, name, value, what))

BindDateTime ==
  /\ query.st = "created"
  /\ \E name \in Names, value \in UnsignedValues, what \in SetParamOutcomes :
       Bound("DateTime", name, value, what,
             query_bind_datetime(query, name, value, what))

BindDate ==
  /\ query.st = "created"
  /\ \E name \in Names, value \in UnsignedValues, what \in SetParamOutcomes :
       Bound("Date", name, value, what,
             query_bind_date(query, name, value, what))

BindDateTime64 ==
  /\ query.st = "created"
  /\ \E name \in Names, value \in SignedValues, what \in SetParamOutcomes :
       Bound("DateTime64", name, value, what,
             query_bind_datetime64(query, name, value, what))

BindNull ==
  /\ query.st = "created"
  /\ \E name \in Names, what \in SetParamOutcomes :
       Bound("NULL", name, <<>>, what, query_bind_null(query, name, what))

InitBind ==
  /\ SelectIdle
  /\ BindIdle
  /\ RoundTripIdle
  /\ DecodeIdle
  /\ ConcIdle

NextBind ==
  \/ QueryCreate
  \/ BindUInt64
  \/ BindInt64
  \/ BindInt32
  \/ BindUInt32
  \/ BindFloat64
  \/ BindFloat32
  \/ BindString
  \/ BindDateTime
  \/ BindDate
  \/ BindDateTime64
  \/ BindNull

SpecBind == InitBind /\ [][NextBind]_vars

BindReturnedOk == bind_ret.ret = MakeAtom("ok")

\* the values bound to a name
BindingsOf(q, name) == {p[2] : p \in {b \in q.params : b[1] = name}}

C7_ValueHeldAsBinding ==
  (bind_ret.op = "String" /\ BindReturnedOk) =>
    BindingsOf(query, bind_ret.name) = {QueryParamText(bind_ret.value)}

C7_TemplateKept ==
  query.st = "created" => (query'.st = "created" /\ query'.sql = query.sql)

\* C7: no bind changes the SQL template of a Query, whatever the value
\* holds: once created, the template stays the string given to
\* query_create, and a bound string is held whole as the binding of its name
C7_BindNeverMutatesTemplate ==
  [](C7_ValueHeldAsBinding) /\ [][C7_TemplateKept]_vars

C7_Witness ==
  /\ query.st = "created"
  /\ query.sql \in SqlPool
  /\ bind_ret.op = "String"
  /\ BindReturnedOk
  /\ bind_ret.value = InjectionText
  /\ <<bind_ret.name, QueryParamText(InjectionText)>> \in query.params

\* C8: a bind returns ok only when Query::SetParam accepted the binding,
\* which is then held by the Query; whenever SetParam raises, the bind
\* raises an error that names the parameter and carries the reason
C8_BindReportsFailure ==
  (bind_ret.op \notin {"none", "create"}) =>
    /\ BindReturnedOk <=> bind_ret.what = "accepted"
    /\ BindReturnedOk => BindingsOf(query, bind_ret.name) # {}
    /\ bind_ret.what \in SetParamErrors =>
         /\ bind_ret.ret[1] = "raise"
         /\ bind_ret.name \in Range(bind_ret.ret[2])
         /\ bind_ret.what \in Range(bind_ret.ret[2])
         /\ bind_ret.op \in Range(bind_ret.ret[2])

C8_Witness ==
  /\ bind_ret.op = "UInt64"
  /\ bind_ret.what = "UnknownParameter"
  /\ bind_ret.ret =
       Raised(<<"Failed to bind ", "UInt64", " parameter '", bind_ret.name,
                "': ", "UnknownParameter">>)
  /\ BindingsOf(query, "x") # {}
  /\ BindingsOf(query, "y") = {}

\* C9: binding NULL leaves a marker that no text equals: the Query after
\* query_bind_null(name) differs from the Query after
\* query_bind_string(name, value) for every text, the empty one included
C9_NullDistinctFromText ==
  /\ query.st = "created" =>
       \A name \in Names, value \in StringValues :
         query_bind_null(query, name, "accepted").query
           # query_bind_string(query, name, value, "accepted").query
  /\ (bind_ret.op = "NULL" /\ BindReturnedOk) =>
       /\ BindingsOf(query, bind_ret.name) = {QueryParamValue}
       /\ \A value \in StringValues :
            QueryParamText(value) \notin BindingsOf(query, bind_ret.name)

C9_Witness ==
  /\ bind_ret.op = "NULL"
  /\ BindReturnedOk
  /\ bind_ret.name = "x"
  /\ BindingsOf(query, "x") = {QueryParamValue}
  /\ BindingsOf(query, "y") = {QueryParamText(<<>>)}

-----------------------------------------------------------------------------
(* The round trip of one literal: it is bound with the bind of its type,   *)
(* the query is executed, a column of that type holding the bound value    *)
(* comes back, and the column is decoded.                                  *)

RoundTripTypes ==
  {"UInt64", "Int64", "Int32", "UInt32", "Float64", "Float32", "String",
   "DateTime", "Date", "DateTime64"}

Literals(type) ==
  CASE type \in {"UInt64", "UInt32", "DateTime", "Date"} -> UnsignedValues
    [] type \in {"Int64", "Int32", "DateTime64"} -> SignedValues
    [] type \in {"Float64", "Float32"} -> FloatValues
    [] type = "String" -> StringValues

\* the bind operation of a type
BindLiteral(type, q, name, literal, what) ==
  CASE type = "UInt64" -> query_bind_uint64(q, name, literal, what)
    [] type = "Int64" -> query_bind_int64(q, name, literal, what)
    [] type = "Int32" -> query_bind_int32(q, name, literal, what)
    [] type = "UInt32" -> query_bind_uint32(q, name, literal, what)
    [] type = "Float64" -> query_bind_float64(q, name, literal, what)
    [] type = "Float32" -> query_bind_float32(q, name, literal, what)
    [] type = "String" -> query_bind_string(q, name, literal, what)
    [] type = "DateTime" -> query_bind_datetime(q, name, literal, what)
    [] type = "Date" -> query_bind_date(q, name, literal, what)
    [] type = "DateTime64" -> query_bind_datetime64(q, name, literal, what)

DigitValue(c) == CHOOSE d \in 0..9 : DigitChars[d + 1] = c

RECURSIVE ParseDigits(_)
ParseDigits(text) ==
  IF text = <<>> THEN 0
  ELSE 10 * ParseDigits(SubSeq(text, 1, Len(text) - 1))
         + DigitValue(text[Len(text)])

IsNegativeText(text) == text # <<>> /\ text[1] = "-"

Unsigned(text) == IF IsNegativeText(text) THEN Tail(text) ELSE text

\* the integer a decimal text denotes
ParseInteger(text) ==
  IF IsNegativeText(text) THEN 0 - ParseDigits(Tail(text))
  ELSE ParseDigits(text)

\* the number a decimal text with a point denotes, in units of
\* 10^-FloatDigits
ParseDecimal(text) ==
  LET body == Unsigned(text)
      point == CHOOSE i \in 1..Len(body) : body[i] = "."
      whole == ParseDigits(SubSeq(body, 1, point - 1))
      frac == SubSeq(body, point + 1, Len(body))
      units == whole * FloatUnit
                 + ParseDigits(frac) * Pow(10, FloatDigits - Len(frac))
  IN  IF IsNegativeText(text) THEN 0 - units ELSE units

\* the value a bound text denotes at a placeholder of the type
ParseText(type, text) ==
  CASE type \in {"Float64", "Float32"} -> ParseDecimal(text)
    [] type = "String" -> text
    [] OTHER -> ParseInteger(text)

InitRoundTrip ==
  /\ SelectIdle
  /\ BindIdle
  /\ DecodeIdle
  /\ ConcIdle
  /\ \E type \in RoundTripTypes :
       \E literal \in Literals(type) :
         rt = [phase |-> "literal", type |-> type, literal |-> literal,
               col |-> NoColumn, value |-> NotDecoded]

\* the bind of the literal's type binds the literal to x
RoundTripBind ==
  /\ rt.phase = "literal"
  /\ query.st = "created"
  /\ \E what \in SetParamOutcomes :
       /\ query' = BindLiteral(rt.type, query, "x", rt.literal, what).query
       /\ bind_ret' =
            [op |-> rt.type, name |-> "x", value |-> rt.literal,
             what |-> what,
             ret |-> BindLiteral(rt.type, query, "x", rt.literal, what).ret]
       /\ rt' = [rt EXCEPT !.phase = IF what = "accepted" THEN "bound"
                                     ELSE "literal"]
  /\ UNCHANGED <<selectVars, decodeVars, concVars>>

\* the Executor applies the binding; the result is one column of the type
\* with one row, the value the bound text denotes
RoundTripExecute ==
  /\ rt.phase = "bound"
  /\ \E text \in {v[2] : v \in BindingsOf(query, "x") \ {QueryParamValue}} :
       rt' = [rt EXCEPT !.phase = "stored",
                        !.col = [code |-> rt.type,
                                 data |-> <<ParseText(rt.type, text)>>]]
  /\ UNCHANGED <<selectVars, bindVars, decodeVars, concVars>>

RoundTripDecode ==
  /\ rt.phase = "stored"
  /\ \E g \in UBOutcomes :
       rt' = [rt EXCEPT !.phase = "decoded",
                        !.value = column_to_elixir_list(rt.col, g)]
  /\ UNCHANGED <<selectVars, bindVars, decodeVars, concVars>>

NextRoundTrip ==
  \/ QueryCreate
  \/ RoundTripBind
  \/ RoundTripExecute
  \/ RoundTripDecode

SpecRoundTrip == InitRoundTrip /\ [][NextRoundTrip]_vars

\* C10: a literal bound with the bind of its type and decoded from the
\* column of that type the query returns equals the literal: the same
\* integer, the same float, the same bytes
C10_RoundTrip ==
  rt.phase = "decoded" =>
    /\ rt.value.st = "ok"
    /\ Len(rt.value.v[2]) = 1
    /\ rt.value.v[2][1][2] = rt.literal

-----------------------------------------------------------------------------
(* Select calls running side by side.  Each call e is one NIF invocation   *)
(* with its own stack frame (its accumulators) and its own Client, which   *)
(* delivers the blocks of the stream to a callback.  client_select and     *)
(* client_select_cols pass their lambda to Client::Select; the             *)
(* parameterized calls store theirs in the Query with OnData and then call *)
(* Client::Select on the Query.  The lambdas capture the frame by reference.    *)
(* conc.cb is the call whose lambda the Query holds, conc.log the pairs    *)
(* <<o, e>>: a block delivered for call e was appended to the              *)
(* accumulators of call o.                                                 *)

Execs == {1, 2}

ConcSchemas ==
  { <<Field("a", TUInt64)>>,
    <<Field("a", TNullable(TString)), Field("b", TArray(TInt32))>>,
    <<Field("a", TMap(TString, TUInt64))>>,
    <<Field("a", TArray(TFixedString))>> }

ConcStreams(sch) ==
  SeqsUpTo({MkBlock(sch, n, 0) : n \in 0..MaxRows}, MaxBlocks)

\* the frame of a call that has not run yet
NewExec(kind, shape) ==
  [kind |-> kind, shape |-> shape, pc |-> "start", snap |-> NoCallback,
   pos |-> 0, maps |-> <<>>, names |-> <<>>, columns |-> <<>>,
   first |-> TRUE, result |-> NoResult]

InitConcurrent ==
  /\ schema \in ConcSchemas
  /\ stream \in ConcStreams(schema)
  /\ rpos = 0
  /\ all_maps = <<>>
  /\ rst = "idle"
  /\ rresult = NoResult
  /\ cpos = 0
  /\ col_names = <<>>
  /\ all_columns = <<>>
  /\ first_block = TRUE
  /\ cst = "idle"
  /\ cresult = NoResult
  /\ BindIdle
  /\ RoundTripIdle
  /\ DecodeIdle
  /\ sends = 0
  /\ \E kind \in {"plain", "param"}, shape1, shape2 \in {"rows", "cols"} :
       conc = [cb |-> NoCallback, log |-> {},
               ex |-> <<NewExec(kind, shape1), NewExec("param", shape2)>>]

\* the frame of the call is alive: its locals can be referred to
FrameAlive(x) == x.pc \in {"start", "registered", "selecting"}

OnDataKeepingFirst(e) ==
  /\ conc.ex[e].kind = "param"
  /\ conc.ex[e].pc = "start"
  /\ conc' = [conc EXCEPT !.cb = IF @ = NoCallback THEN e ELSE @,
                          !.ex[e].pc = "registered"]
  /\ UNCHANGED <<selectVars, bindVars, rt, decodeVars, sends>>

\* query->OnData(lambda): the Query now holds the lambda of call e
OnData(e) ==
  /\ conc.ex[e].kind = "param"
  /\ conc.ex[e].pc = "start"
  /\ conc' = [conc EXCEPT !.cb = e, !.ex[e].pc = "registered"]
  /\ UNCHANGED <<selectVars, bindVars, rt, decodeVars, sends>>

\* client->Select with the lambda or with the Query: the Client
\* starts streaming to the lambda passed, or to the one the Query holds
SelectStart(e) ==
  /\ \/ conc.ex[e].kind = "plain" /\ conc.ex[e].pc = "start"
     \/ conc.ex[e].kind = "param" /\ conc.ex[e].pc = "registered"
  /\ conc' = [conc EXCEPT !.ex[e].pc = "selecting",
                          !.ex[e].snap = IF conc.ex[e].kind = "plain" THEN e
                                         ELSE conc.cb]
  /\ UNCHANGED <<selectVars, bindVars, rt, decodeVars, sends>>

\* the lambda of a rows call on its frame x, r being what
\* block_to_maps_impl did
RowsLambda(x, r) ==
  [st |-> r.st, msg |-> r.msg, x |-> [x EXCEPT !.maps = r.out]]

\* the lambda of a columns call on its frame x
ColsLambda(x, r) ==
  [st |-> r.st, msg |-> r.msg,
   x |-> [x EXCEPT !.names = r.names, !.columns = r.columns,
                   !.first = r.first]]

cols_on_block_reinitialising(block, names0, columns0, first0, g) ==
  IF SkipsBlock(block.rows)
  THEN [st |-> "ok", names |-> names0, columns |-> columns0,
        first |-> first0, msg |-> ""]
  ELSE ColsAppend(block, names0, columns0, TRUE, g,
                  DecodeBlockColumns(block, g))

\* the lambda of client_select_cols_parameterized applied to one block
cols_on_block_parameterized(block, names0, columns0, first0, g) ==
  IF SkipsBlock(block.rows)
  THEN [st |-> "ok", names |-> names0, columns |-> columns0,
        first |-> first0, msg |-> ""]
  ELSE ColsAppend(block, names0, columns0, first0, g,
                  DecodeBlockColumns(block, g))

\* the lambda that captured frame x, called with one block
Lambda(x, block, g) ==
  IF x.shape = "rows"
  THEN RowsLambda(x, block_to_maps_impl(block, x.maps, g))
  ELSE IF x.kind = "plain"
  THEN ColsLambda(x, cols_on_block(block, x.names, x.columns, x.first, g))
  ELSE ColsLambda(x, cols_on_block_parameterized(block, x.names, x.columns,
                                                 x.first, g))

\* the call unwinds or dies: its frame is gone
Dead(x, pc, result) ==
  [x EXCEPT !.pc = pc, !.result = result, !.maps = <<>>, !.names = <<>>,
            !.columns = <<>>]

\* the Client of call e has called the lambda of call o with a block, and
\* the lambda did r
AfterLambda(e, o, block, r) ==
  conc' =
    [conc EXCEPT
       !.ex = [i \in Execs |->
                 LET x == IF i = o THEN r.x ELSE conc.ex[i]
                 IN  IF i # e THEN x
                     ELSE CASE r.st = "ok" -> [x EXCEPT !.pos = @ + 1]
                            [] r.st = "throw" ->
                                 Dead(x, "raised", Raised(r.msg))
                            [] r.st = "crash" -> Dead(x, "crashed", NoResult)],
       !.log = IF r.st = "ok" /\ ~SkipsBlock(block.rows)
               THEN @ \cup {<<o, e>>} ELSE @]

\* the lambda refers to a frame that is gone: undefined behaviour, the
\* process dies or the block is written to dead memory
AfterDangling(e, g) ==
  conc' = [conc EXCEPT
             !.ex[e] = IF g = "crash" THEN Dead(@, "crashed", NoResult)
                       ELSE [@ EXCEPT !.pos = @ + 1]]

\* Client::Select of call e delivers its next block to the callback
Deliver(e) ==
  /\ conc.ex[e].pc = "selecting"
  /\ conc.ex[e].pos < Len(stream)
  /\ \E g \in UBOutcomes :
       IF FrameAlive(conc.ex[conc.ex[e].snap])
       THEN AfterLambda(e, conc.ex[e].snap, stream[conc.ex[e].pos + 1],
                        Lambda(conc.ex[conc.ex[e].snap],
                               stream[conc.ex[e].pos + 1], g))
       ELSE AfterDangling(e, g)
  /\ UNCHANGED <<selectVars, bindVars, rt, decodeVars, sends>>

\* the term a call returns from its own accumulators
ExecResult(x, g) ==
  IF x.shape = "rows" THEN MakeList(x.maps)
  ELSE cols_result(x.names, x.columns, g)

\* Client::Select returned: the call builds its result and returns
Return(e) ==
  /\ conc.ex[e].pc = "selecting"
  /\ conc.ex[e].pos = Len(stream)
  /\ \E g \in UBOutcomes :
       conc' = [conc EXCEPT
                  !.ex[e] =
                    IF ExecResult(conc.ex[e], g) = Garbage("crash")
                    THEN Dead(conc.ex[e], "crashed", NoResult)
                    ELSE [conc.ex[e] EXCEPT
                            !.pc = "returned",
                            !.result = ExecResult(conc.ex[e], g)]]
  /\ UNCHANGED <<selectVars, bindVars, rt, decodeVars, sends>>

NextConcurrent ==
  \E e \in Execs : OnData(e) \/ SelectStart(e) \/ Deliver(e) \/ Return(e)

SpecConcurrent == InitConcurrent /\ [][NextConcurrent]_vars

\* C11: every block delivered for one call is appended to the accumulators
\* of that call and of no other, under every interleaving of OnData,
\* Select and the callbacks of two calls
C11_NoSharedAccumulator == \A p \in conc.log : p[1] = p[2]


\* the block makes the materializers read what was never written
BlockUndefined(block) ==
  /\ block.rows > 0
  /\ DecodeBlockColumns(block, "junk").st = "ok"
  /\ \/ DecodeBlockColumns(block, "junk").ub
     \/ \E c \in 1..Len(block.columns) :
          Len(DecodeBlockColumns(block, "junk").v[c]) < block.rows

StreamDefined(s) == \A k \in 1..Len(s) : ~BlockUndefined(s[k])

ExecDone(x) == x.pc \in {"returned", "raised"}

\* C12: for the same stream of blocks a plain select and a parameterized
\* select of the same shape end the same way, with the same result or the
\* same error
C12_PlainEqualsParameterized ==
  \A e1, e2 \in DOMAIN conc.ex :
    ( /\ conc.ex[e1].kind = "plain"
      /\ conc.ex[e2].kind = "param"
      /\ conc.ex[e1].shape = conc.ex[e2].shape
      /\ ExecDone(conc.ex[e1])
      /\ ExecDone(conc.ex[e2])
      /\ StreamDefined(stream) )
    => /\ conc.ex[e1].pc = conc.ex[e2].pc
       /\ conc.ex[e1].result = conc.ex[e2].result

C12_Witness ==
  /\ conc.ex # <<>>
  /\ conc.ex[1].kind = "plain"
  /\ conc.ex[1].shape = "cols"
  /\ conc.ex[2].shape = "cols"
  /\ conc.ex[1].pc = "returned"
  /\ conc.ex[2].pc = "returned"
  /\ Len(stream) = MaxBlocks
  /\ \A k \in 1..Len(stream) : stream[k].rows > 0
  /\ Len(schema) > 1
  /\ conc.ex[2].result = conc.ex[1].result
  /\ \E p \in conc.ex[2].result[2] : 
       Len(p[2][2]) = Sum([k \in 1..Len(stream) |-> stream[k].rows],
                          Len(stream))

-----------------------------------------------------------------------------
(* Properties of the decoder on one column (SpecDecode).                   *)

\* the values of a decode outcome of column_to_elixir_list
ListValues(r) == r.v[2]

\* what the dictionary item of row i must decode to
LowCardinalityValue(item) ==
  IF item.type = "String" THEN <<"bin", item.val>> ELSE <<"nil">>

LowCardinalitySupported(col) ==
  \A i \in 1..Len(col.items) : col.items[i].type \in {"String", "Void"}

\* the rows of a LowCardinality decode r: looked up row by row, or the
\* hard failure
LowCardinalityRows(col, r, values) ==
  IF LowCardinalitySupported(col)
  THEN /\ r.st = "ok"
       /\ Len(values) = Len(col.items)
       /\ \A i \in 1..Len(col.items) :
            values[i] = LowCardinalityValue(col.items[i])
  ELSE /\ r.st = "throw"
       /\ r.msg = "Unsupported LowCardinality inner type"

\* C13: a LowCardinality column decodes row by row through its dictionary:
\* a String item to the bytes of the string, a void item to nil, and any
\* other item type aborts the decode with an error; nothing else happens
C13_LowCardinalityLookup ==
  dcol.code = "LowCardinality" =>
    /\ dlist.st # "none" => LowCardinalityRows(dcol, dlist, dlist.v[2])
    /\ dtop.st # "none" => LowCardinalityRows(dcol, dtop, dtop.v)

C13_Witness ==
  /\ dcol.code = "LowCardinality"
  /\ \E i, j \in 1..Len(dcol.items) :
       dcol.items[i].type = "String" /\ dcol.items[j].type = "Void"
  /\ dlist.st = "ok"
  /\ dtop.st = "ok"
  /\ Nil \in Range(dtop.v)
  /\ \E x \in Range(dlist.v[2]) : x[1] = "bin"

-----------------------------------------------------------------------------
(* UUID columns: every pair of halves built from a few limb values is      *)
(* decoded once by each decoder.                                           *)

LimbValues == {0, 2748, 65535}

Halves == [1..4 -> LimbValues]

\* the halves 0x0102030405060708 and 0x090A0B0C0D0E0F10
SampleUuid ==
  [first |-> <<258, 772, 1286, 1800>>, second |-> <<2314, 2828, 3342, 3856>>]

SampleUuidText ==
  <<"0", "1", "0", "2", "0", "3", "0", "4", "-", "0", "5", "0", "6", "-",
    "0", "7", "0", "8", "-", "0", "9", "0", "a", "-", "0", "b", "0", "c",
    "0", "d", "0", "e", "0", "f", "1", "0">>

UuidInputs ==
  {[code |-> "UUID", data |-> <<[first |-> h, second |-> l]>>] :
     h \in Halves, l \in Halves}
  \cup {[code |-> "UUID", data |-> <<SampleUuid>>]}

InitUuid ==
  /\ SelectIdle
  /\ BindIdle
  /\ RoundTripIdle
  /\ ConcIdle
  /\ dcol \in UuidInputs
  /\ dlist = NotDecoded
  /\ dtop = NotDecoded

SpecUuid == InitUuid /\ [][NextDecode]_vars

LowerHex ==
  {"0", "1", "2", "3", "4", "5", "6", "7", "8", "9", "a", "b", "c", "d",
   "e", "f"}

LowerHexValue(c) ==
  CASE c = "0" -> 0 [] c = "1" -> 1 [] c = "2" -> 2 [] c = "3" -> 3
    [] c = "4" -> 4 [] c = "5" -> 5 [] c = "6" -> 6 [] c = "7" -> 7
    [] c = "8" -> 8 [] c = "9" -> 9 [] c = "a" -> 10 [] c = "b" -> 11
    [] c = "c" -> 12 [] c = "d" -> 13 [] c = "e" -> 14 [] c = "f" -> 15

\* the 16 bits that four hex digits starting at position p denote
HexQuad(text, p) ==
  4096 * LowerHexValue(text[p]) + 256 * LowerHexValue(text[p + 1])
    + 16 * LowerHexValue(text[p + 2]) + LowerHexValue(text[p + 3])

HyphenPositions == {9, 14, 19, 24}

\* text is the canonical text of the halves high and low
CanonicalUuid(text, high, low) ==
  /\ Len(text) = 36
  /\ \A p \in 1..36 :
       IF p \in HyphenPositions THEN text[p] = "-" ELSE text[p] \in LowerHex
  /\ <<HexQuad(text, 1), HexQuad(text, 5)>> = <<high[1], high[2]>>
  /\ HexQuad(text, 10) = high[3]
  /\ HexQuad(text, 15) = high[4]
  /\ HexQuad(text, 20) = low[1]
  /\ <<HexQuad(text, 25), HexQuad(text, 29), HexQuad(text, 33)>>
       = <<low[2], low[3], low[4]>>

UuidTermOk(term, uuid) ==
  /\ term[1] = "bin"
  /\ CanonicalUuid(term[2], uuid.first, uuid.second)
  /\ uuid = SampleUuid => term[2] = SampleUuidText

\* C14: a UUID decodes to 36 characters of lowercase hex in groups of 8, 4,
\* 4, 4 and 12 separated by hyphens, the groups being bits 63..32, 31..16
\* and 15..0 of the high half and bits 63..48 and 47..0 of the low half,
\* zero padded; the sample halves give 01020304-0506-0708-090a-0b0c0d0e0f10
C14_UuidCanonicalText ==
  dcol.code = "UUID" =>
    /\ dlist.st # "none" =>
         /\ dlist.st = "ok"
         /\ \A i \in 1..Len(dcol.data) :
              UuidTermOk(dlist.v[2][i], dcol.data[i])
    /\ dtop.st # "none" =>
         /\ dtop.st = "ok"
         /\ \A i \in 1..Len(dcol.data) : UuidTermOk(dtop.v[i], dcol.data[i])

C14_Witness ==
  /\ dcol.code = "UUID"
  /\ dcol.data = <<SampleUuid>>
  /\ dlist.st = "ok"
  /\ dlist.v[2] = <<MakeBinaryCopy(SampleUuidText)>>
  /\ dtop.st = "ok"
  /\ dtop.v = <<MakeBinaryCopy(SampleUuidText)>>

-----------------------------------------------------------------------------
(* Decimal columns of every width, over unscaled values inside and         *)
(* outside the range of a 64-bit integer.                                  *)

\* Int128 values: the high 64 bits (signed) and the low 64 bits read as a
\* signed integer
DecimalValues == [hi : {-1, 0, 1}, lo : {-5, 0, 1250}]

DecimalInputs ==
  {[code |-> code, data |-> data] :
     code \in DecimalCodes,
     data \in {<<>>} \cup {<<v>> : v \in DecimalValues}
                \cup {<<v, w>> : v \in DecimalValues, w \in DecimalValues}}

InitDecimal ==
  /\ SelectIdle
  /\ BindIdle
  /\ RoundTripIdle
  /\ ConcIdle
  /\ dcol \in DecimalInputs
  /\ dlist = NotDecoded
  /\ dtop = NotDecoded

SpecDecimal == InitDecimal /\ [][NextDecode]_vars

\* the unscaled value written as multiple * 2^64 + rest, with rest in
\* [-2^63, 2^63): rest is the value modulo 2^64 reinterpreted as signed
Unscaled(value) ==
  [multiple |-> value.hi + (IF value.lo < 0 THEN 1 ELSE 0),
   rest |-> value.lo]

\* the unscaled value lies in [-2^63, 2^63)
FitsInt64(value) == Unscaled(value).multiple = 0

DecimalTermOk(term, value) ==
  /\ term = <<"int", Unscaled(value).rest>>
  /\ Len(term) = 2

\* C15: a Decimal of any width decodes, without error and without its
\* scale, to the 64-bit signed integer that narrowing the 128-bit unscaled
\* value gives: the value itself when it fits 64 bits, the value modulo
\* 2^64 read as signed when it does not
C15_DecimalNarrowed ==
  dcol.code \in DecimalCodes =>
    /\ dlist.st # "none" =>
         /\ dlist.st = "ok"
         /\ Len(dlist.v[2]) = Len(dcol.data)
         /\ \A i \in 1..Len(dcol.data) :
              DecimalTermOk(dlist.v[2][i], dcol.data[i])
    /\ dtop.st # "none" =>
         /\ dtop.st = "ok"
         /\ Len(dtop.v) = Len(dcol.data)
         /\ \A i \in 1..Len(dcol.data) :
              DecimalTermOk(dtop.v[i], dcol.data[i])

C15_Witness ==
  /\ dcol.code = "Decimal32"
  /\ Len(dcol.data) = 2
  /\ FitsInt64(dcol.data[1])
  /\ dcol.data[1].lo < 0
  /\ ~FitsInt64(dcol.data[2])
  /\ dcol.data[2].hi = 1
  /\ dlist.st = "ok"
  /\ dtop.st = "ok"
  /\ dlist.v[2] = <<MakeInt64(-5), MakeInt64(1250)>>
  /\ dtop.v = <<MakeInt64(-5), MakeInt64(1250)>>

-----------------------------------------------------------------------------
(* Map columns (SpecDecode).                                               *)

\* the decoded keys and the decoded values of row i of a Map column
MapRowKeys(col, i) == column_to_elixir_list(col.rows[i].elems[1], "junk").v[2]

MapRowValues(col, i) ==
  column_to_elixir_list(col.rows[i].elems[2], "junk").v[2]

\* the pairs of the key sequence and the value sequence, position by
\* position
Zip(keys, values) == {<<keys[j], values[j]>> : j \in 1..Len(keys)}

\* term is a map of unique keys holding exactly the zipped pairs
MapTermOk(term, keys, values) ==
  /\ term[1] = "map"
  /\ term[2] = Zip(keys, values)
  /\ \A p, q \in term[2] : p[1] = q[1] => p = q

\* C16: every row of a Map column decodes to a map with unique keys that
\* holds exactly the pairs of the row's decoded keys and decoded values,
\* position by position, also when the row repeats a key
C16_MapRowsZipped ==
  dcol.code = "Map" =>
    /\ dlist.st = "ok" =>
         \A i \in 1..Len(dcol.rows) :
           MapTermOk(dlist.v[2][i], MapRowKeys(dcol, i), MapRowValues(dcol, i))
    /\ dtop.st = "ok" =>
         \A i \in 1..Len(dcol.rows) :
           MapTermOk(dtop.v[i], MapRowKeys(dcol, i), MapRowValues(dcol, i))

-----------------------------------------------------------------------------
(* Array columns in a stream of blocks (Spec).                             *)

\* Array(Int32), Array(Array(Int32)), ...
RECURSIVE IntArrayType(_)
IntArrayType(t) ==
  /\ t.code = "Array"
  /\ (t.of.code = "Int32" \/ IntArrayType(t.of))

\* the nested list with the shape and the element order of the column
RECURSIVE NestedList(_)
NestedList(col) ==
  IF col.code = "Array"
  THEN <<"list", [i \in 1..Len(col.rows) |-> NestedList(col.rows[i])]>>
  ELSE <<"list", [i \in 1..Len(col.data) |-> <<"int", col.data[i]>>]>>

\* row r of column c of the k-th block, as a column
ArrayRow(k, c, r) == stream[k].columns[c].col.rows[r]

C17_RowsKeepShape ==
  Running(rst) =>
    \A k \in 1..rpos : \A r \in 1..stream[k].rows : \A c \in 1..Len(schema) :
      IntArrayType(schema[c].type) =>
        MapGet(all_maps[RowOffset(k) + r], MakeAtom(schema[c].name))
          = NestedList(ArrayRow(k, c, r))

C17_ColumnsKeepShape ==
  Running(cst) =>
    \A k \in 1..cpos : \A r \in 1..stream[k].rows : \A c \in 1..Len(schema) :
      IntArrayType(schema[c].type) =>
        all_columns[c][RowOffset(k) + r] = NestedList(ArrayRow(k, c, r))

\* C17: an Array column of any depth decodes to nested lists with the
\* shape and the element order of every row, empty inner arrays included,
\* whichever block of the stream carries the row
C17_ArraysKeepShape == C17_RowsKeepShape /\ C17_ColumnsKeepShape

C17_Witness ==
  /\ rst = "ok"
  /\ cst = "ok"
  /\ Len(stream) >= 2
  /\ \E c \in 1..Len(schema) :
       /\ schema[c].type = TArray(TArray(TInt32))
       /\ stream[1].rows > 0
       /\ stream[2].rows > 1
       /\ \E r \in 1..stream[2].rows :
            /\ NestedList(ArrayRow(2, c, r)) # NestedList(ArrayRow(2, c, 1))
            /\ \E inner \in Range(NestedList(ArrayRow(2, c, r))[2]) :
                 Len(inner[2]) > 1
            /\ all_columns[c][RowOffset(2) + r] = NestedList(ArrayRow(2, c, r))
       /\ \E k \in 1..2 : \E r \in 1..stream[k].rows :
            <<"list", <<>>>> \in Range(NestedList(ArrayRow(k, c, r))[2])

-----------------------------------------------------------------------------
(* Ownership of the accumulated values (Spec).  A term is owned when no    *)
(* part of it is a view of bytes that belong to the block.                 *)

RECURSIVE Owned(_)
Owned(term) ==
  CASE term[1] = "view" -> FALSE
    [] term[1] \in {"list", "tuple"} ->
         \A i \in 1..Len(term[2]) : Owned(term[2][i])
    [] term[1] = "map" -> \A p \in term[2] : Owned(p[1]) /\ Owned(p[2])
    [] OTHER -> TRUE

\* C18: when the callback has returned, every value in the accumulators,
\* nested values included, is an owned copy: none refers to the bytes of
\* the block, so releasing the block cannot change it
C18_AccumulatedValuesOwned ==
  /\ \A i \in 1..Len(all_maps) : Owned(all_maps[i])
  /\ \A c \in 1..Len(all_columns) :
       \A i \in 1..Len(all_columns[c]) : Owned(all_columns[c][i])
  /\ rst = "ok" => Owned(rresult)
  /\ cst = "ok" => Owned(cresult)

\* some part of the term is a binary
RECURSIVE HoldsBinary(_)
HoldsBinary(term) ==
  CASE term[1] = "bin" -> TRUE
    [] term[1] \in {"list", "tuple"} ->
         \E i \in 1..Len(term[2]) : HoldsBinary(term[2][i])
    [] term[1] = "map" -> \E p \in term[2] : HoldsBinary(p[2])
    [] OTHER -> FALSE

C18_Witness ==
  /\ rst = "running"
  /\ cst = "running"
  /\ rpos = 1
  /\ cpos = 1
  /\ Len(stream) > 1
  /\ \E c \in 1..Len(schema) : schema[c].type.code = "LowCardinality"
  /\ \E i \in 1..Len(all_maps) : HoldsBinary(all_maps[i])
  /\ \E c \in 1..Len(all_columns) :
       \E i \in 1..Len(all_columns[c]) : HoldsBinary(all_columns[c][i])

-----------------------------------------------------------------------------
(* Binding and sending: a Query is created, bound, and sent by             *)
(* parameterized selects, in any order.                                    *)

MaxSends == 2

\* client_select_parameterized and client_select_cols_parameterized hand
\* the Query, its template and its bindings, to Client::Select; the Query
\* resource is left as it was
SendParameterized ==
  /\ query.st = "created"
  /\ sends < MaxSends
  /\ sends' = sends + 1
  /\ UNCHANGED <<selectVars, bindVars, rt, decodeVars, conc>>

NextSend ==
  \/ QueryCreate
  \/ BindUInt64
  \/ BindString
  \/ BindNull
  \/ SendParameterized

SpecSend == InitBind /\ [][NextSend]_vars

\* a step of a bind on a Query: the Query exists and the step is no send
BindStep == query.st = "created" /\ sends' = sends

C19_BindAfterSendFails ==
  (BindStep /\ sends > 0) =>
    /\ bind_ret'.ret[1] = "raise"
    /\ query'.params = query.params

C19_SentOnce == sends <= 1

-----------------------------------------------------------------------------
(* The two paths of the Nullable decode (SpecDecode).                      *)

\* the specialized loop and the fallback agree on the column
FastEqualsFallback(col, g) ==
  /\ DecodeNullableFallback(col, Size(col), g).st = "ok"
  /\ DecodeNullableFallback(col, Size(col), g).v
       = DecodeNullableFast(col, Size(col)).v

\* C20: on a Nullable column whose nested type has a specialized loop, the
\* fallback that slices one row and decodes it gives the same values, row
\* by row, as the specialized loop; and column_to_elixir_list decodes a
\* Nullable column to the same values as the materializers
C20_NullablePathsAgree ==
  dcol.code = "Nullable" =>
    /\ (FastNested(dcol.nested) /\ dlist.st # "none") =>
         /\ \A g \in UBOutcomes : FastEqualsFallback(dcol, g)
         /\ dlist.v[2] = DecodeNullableFallback(dcol, Size(dcol), "junk").v
    /\ (dlist.st # "none" /\ dtop.st # "none") =>
         /\ dlist.st = dtop.st
         /\ dlist.msg = dtop.msg
         /\ dlist.st = "ok" => dlist.v[2] = dtop.v

C20_Witness ==
  /\ dcol.code = "Nullable"
  /\ dcol.nested.code = "String"
  /\ Len(dcol.nulls) > 1
  /\ \E i, j \in 1..Len(dcol.nulls) : dcol.nulls[i] /\ ~dcol.nulls[j]
  /\ dlist.st = "ok"
  /\ dtop.st = "ok"
  /\ dlist.v[2] = DecodeNullableFallback(dcol, Size(dcol), "junk").v
  /\ \E x \in Range(dtop.v) : x[1] = "bin" /\ Len(x[2]) > 0

-----------------------------------------------------------------------------
(* Tuple columns: the nested decodes made, and the rows built from them.   *)

\* the decodes made for a Tuple column are one per element column, each of
\* the whole element column, and row i holds element i of each decoded list
TupleRowsOk(values, col, decodes) ==
  /\ Len(decodes) = Len(col.elems)
  /\ \A j \in 1..Len(col.elems) :
       /\ decodes[j].of = col.elems[j]
       /\ decodes[j].list.st = "ok"
       /\ Len(decodes[j].list.v[2]) = col.size
  /\ Len(values) = col.size
  /\ \A i \in 1..col.size :
       /\ values[i][1] = "tuple"
       /\ Len(values[i][2]) = Len(col.elems)
       /\ \A j \in 1..Len(col.elems) :
            values[i][2][j] = decodes[j].list.v[2][i]

\* C21: a Tuple column of arity k with n rows is decoded with k nested
\* decodes, one of each whole element column whatever n is, and row i is
\* the tuple of the i-th elements of the k decoded sequences, in element
\* order; in column_to_elixir_list and in the decode of the materializers
C21_TupleDecodedOncePerElement ==
  dcol.code = "Tuple" =>
    /\ dlist.st = "ok" =>
         \E g \in UBOutcomes :
           /\ dlist = column_to_elixir_list(dcol, g)
           /\ TupleRowsOk(dlist.v[2], dcol, TupleElementDecodes(dcol, g))
    /\ dtop.st = "ok" =>
         \E g \in UBOutcomes :
           /\ dtop = DecodeBlockColumn(dcol, Size(dcol), g)
           /\ TupleRowsOk(dtop.v, dcol, TupleElementDecodes(dcol, g))

C21_Witness ==
  /\ dcol.code = "Tuple"
  /\ Len(dcol.elems) = 3
  /\ dcol.size = 2
  /\ dlist.st = "ok"
  /\ dtop.st = "ok"
  /\ dlist.v[2][2] # dlist.v[2][1]
  /\ dtop.v = dlist.v[2]

-----------------------------------------------------------------------------
(* Map columns whose rows are not backed by a Tuple of a keys column and a *)
(* values column: GetAsColumn(i) is a plain column, or a Tuple of one or   *)
(* of three element columns.                                               *)

BackingShapes == {"pair", "single", "triple", "column"}

MapBacking(shape, k) ==
  LET keys == MkCol(TString, k % 3, k)
      values == MkCol(TUInt64, k % 3, k)
      Tuple(elems) == [code |-> "Tuple", size |-> k % 3, elems |-> elems]
  IN  CASE shape = "pair" -> Tuple(<<keys, values>>)
        [] shape = "single" -> Tuple(<<keys>>)
        [] shape = "triple" -> Tuple(<<keys, values, MkCol(TInt64, k % 3, k)>>)
        [] shape = "column" -> keys

MapBackingInputs ==
  {[code |-> "Map",
    rows |-> [i \in 1..Len(s) |-> MapBacking(s[i][1], s[i][2])]] :
     s \in SeqsUpTo(BackingShapes \X (0..(MaxSeed + 1)), MaxRows)}

InitMapBacking ==
  /\ SelectIdle
  /\ BindIdle
  /\ RoundTripIdle
  /\ ConcIdle
  /\ dcol \in MapBackingInputs
  /\ dlist = NotDecoded
  /\ dtop = NotDecoded

SpecMapBacking == InitMapBacking /\ [][NextDecode]_vars

MalformedMapStructure(kv_tuples) ==
  ~(kv_tuples.code = "Tuple" /\ Len(kv_tuples.elems) = 2)

\* C22: a row of a Map column whose backing column is not a Tuple of exactly
\* two element columns decodes to the empty map and the decode of the column
\* goes on, in column_to_elixir_list and in the decode of the materializers
C22_MalformedMapRowIsEmptyMap ==
  dcol.code = "Map" =>
    \A i \in 1..Len(dcol.rows) :
      MalformedMapStructure(dcol.rows[i]) =>
        /\ dlist.st # "none" =>
             /\ dlist.st = "ok"
             /\ Len(dlist.v[2]) = Len(dcol.rows)
             /\ dlist.v[2][i] = NewMap
        /\ dtop.st # "none" =>
             /\ dtop.st = "ok"
             /\ Len(dtop.v) = Len(dcol.rows)
             /\ dtop.v[i] = NewMap

-----------------------------------------------------------------------------
(* The records of the row-oriented result, block by block.                 *)

\* record r of block k: one entry per column of the block, the name of
\* column c mapped to element r of the sequence decoded for column c
RecordOfRow(record, block, r) ==
  /\ MapKeys(record)
       = {MakeAtom(block.columns[c].name) : c \in 1..Len(block.columns)}
  /\ Cardinality(record[2]) = Len(block.columns)
  /\ \A c \in 1..Len(block.columns) :
       /\ r <= Len(BlockColumnValues(block, c))
       /\ MapGet(record, MakeAtom(block.columns[c].name))
            = BlockColumnValues(block, c)[r]

\* C23: the row-oriented materializer appends exactly row_count records for
\* a block, record r mapping each column name of the block to element r of
\* the sequence decoded for that column, and the result of the whole stream
\* has as many records as the row counts of its blocks add up to
C23_RecordsPerBlock ==
  Running(rst) =>
    /\ Len(all_maps) = RowOffset(rpos + 1)
    /\ \A k \in 1..rpos : \A r \in 1..stream[k].rows :
         RecordOfRow(all_maps[RowOffset(k) + r], stream[k], r)
    /\ rst = "ok" =>
         /\ rresult[1] = "list"
         /\ Len(rresult[2]) = RowOffset(Len(stream) + 1)

-----------------------------------------------------------------------------
(* The lengths of the accumulated columns.                                 *)

\* C24: every column of the column-oriented result holds as many elements
\* as the row counts of the delivered blocks add up to, so all columns have
\* the same length, however many blocks came and whatever their sizes were
\* next to the capacity reserved at the first block
C24_ColumnsHoldEveryRow ==
  /\ Running(cst) =>
       \A c \in 1..Len(all_columns) :
         Len(all_columns[c]) = RowOffset(cpos + 1)
  /\ cst = "ok" =>
       \A p \in cresult[2] :
         /\ p[2][1] = "list"
         /\ Len(p[2][2]) = RowOffset(Len(stream) + 1)

-----------------------------------------------------------------------------
(* The 32-bit integer binds.                                               *)

\* the text a bind left as the binding of its name denotes an integer of
\* the range low..high
BoundTextInRange(low, high) ==
  \E value \in BindingsOf(query, bind_ret.name) :
    /\ value[1] = "text"
    /\ ParseInteger(value[2]) >= low
    /\ ParseInteger(value[2]) <= high

\* C25: the text bound by query_bind_int32 denotes a value of the range of
\* a signed 32-bit integer, and the text bound by query_bind_uint32 a value
\* of the range of an unsigned 32-bit integer, whatever the 64-bit input is
\* (every integer of the model is below 2^32, so the unsigned range is
\* written as 0 and above)
C25_Bind32WithinRange ==
  /\ (bind_ret.op = "Int32" /\ BindReturnedOk) =>
       BoundTextInRange(-2147483647 - 1, 2147483647)
  /\ (bind_ret.op = "UInt32" /\ BindReturnedOk) =>
       BoundTextInRange(0, 2147483647)

-----------------------------------------------------------------------------
(* Integer and temporal primitives.                                        *)

UnsignedTypes == {"UInt8", "UInt16", "UInt32", "UInt64"}

SignedTypes == {"Int8", "Int16", "Int32", "Int64"}

\* the term of a raw value: the unsigned or the signed 64-bit integer of
\* the same value
WidenedTerm(code, raw) ==
  IF code \in UnsignedTypes \cup {"Date", "DateTime"}
  THEN <<"uint", raw>>
  ELSE <<"int", raw>>

WidenedValues(values, col) ==
  /\ Len(values) = Len(col.data)
  /\ \A i \in 1..Len(col.data) :
       /\ values[i] = WidenedTerm(col.code, col.data[i])
       /\ values[i][2] < 0 <=> col.data[i] < 0

\* C26: an integer column decodes each value to the 64-bit integer of the
\* same value, unsigned for UInt8/16/32/64 and signed for Int8/16/32/64
\* (a negative value stays negative), and Date, DateTime and DateTime64
\* decode to the raw day, second and tick count; in column_to_elixir_list
\* and in the decode of the materializers
C26_WideningKeepsValue ==
  dcol.code \in UnsignedTypes \cup SignedTypes
                  \cup {"Date", "DateTime", "DateTime64"} =>
    /\ dlist.st # "none" =>
         dlist.st = "ok" /\ WidenedValues(dlist.v[2], dcol)
    /\ dtop.st # "none" =>
         dtop.st = "ok" /\ WidenedValues(dtop.v, dcol)

C26_Witness ==
  /\ dcol.code = "Int8"
  /\ Len(dcol.data) = 2
  /\ dcol.data[1] = -1
  /\ dlist.st = "ok"
  /\ dlist.v[2][1] = <<"int", -1>>
  /\ dtop.st = "ok"
  /\ dtop.v[1] = <<"int", -1>>

-----------------------------------------------------------------------------
(* The keys of the column-oriented result.                                 *)

\* the column names of the first block of the stream that has rows
FirstBlockNames(s) ==
  IF NonEmptyBlocks(s) = <<>> THEN {}
  ELSE {MakeAtom(Head(NonEmptyBlocks(s)).columns[c].name) :
          c \in 1..Len(Head(NonEmptyBlocks(s)).columns)}

\* C27: the keys of the column-oriented result are the column names of the
\* first block that has rows; for a stream without such a block
\* client_select_cols returns the map without any column and client_select
\* returns the empty list
C27_KeysOfFirstBlock ==
  /\ cst = "ok" =>
       /\ cresult[1] = "map"
       /\ MapKeys(cresult) = FirstBlockNames(stream)
       /\ Cardinality(cresult[2]) = Cardinality(FirstBlockNames(stream))
       /\ NonEmptyBlocks(stream) = <<>> => cresult = NewMap
  /\ (rst = "ok" /\ NonEmptyBlocks(stream) = <<>>) =>
       rresult = MakeList(<<>>)

C27_Witness ==
  /\ cst = "ok"
  /\ rst = "ok"
  /\ Len(stream) = 2
  /\ stream[1].rows = 0
  /\ stream[2].rows = 2
  /\ Len(schema) = 2
  /\ MapKeys(cresult) = {MakeAtom("a"), MakeAtom("b")}

-----------------------------------------------------------------------------
(* The length of every decoded list, and the error placeholder.            *)

\* the columns the decode of col hands to nested calls of
\* column_to_elixir_list, at any depth
RECURSIVE NestedColumns(_)
NestedColumns(col) ==
  LET Below(subs) == subs \cup UNION {NestedColumns(s) : s \in subs}
  IN  CASE col.code = "Array" -> Below(Range(col.rows))
        [] col.code = "Map" ->
             Below(UNION {Range(col.rows[i].elems) : i \in 1..Len(col.rows)})
        [] col.code = "Tuple" -> Below(Range(col.elems))
        [] col.code = "Nullable" /\ ~FastNested(col.nested) ->
             Below({Slice(col.nested, i - 1, 1) :
                      i \in {k \in 1..Len(col.nulls) : ~col.nulls[k]}})
        [] OTHER -> {}

\* some part of the term is the atom error
RECURSIVE HoldsError(_)
HoldsError(term) ==
  CASE term = MakeAtom("error") -> TRUE
    [] term[1] \in {"list", "tuple"} ->
         \E i \in 1..Len(term[2]) : HoldsError(term[2][i])
    [] term[1] = "map" ->
         \E p \in term[2] : HoldsError(p[1]) \/ HoldsError(p[2])
    [] OTHER -> FALSE

ListOfSize(r, n) == r.st = "ok" => (r.v[1] = "list" /\ Len(r.v[2]) = n)

\* C28: column_to_elixir_list, when it returns, returns a list of exactly
\* as many elements as the column has rows, for the column and for every
\* column decoded below it, and the atom error that stands in for a missing
\* element appears nowhere in what the decoder and the materializers produce
C28_ListsCompleteNoErrorAtom ==
  /\ dlist.st = "ok" =>
       /\ dlist.v[1] = "list"
       /\ Len(dlist.v[2]) = Size(dcol)
       /\ ~HoldsError(dlist.v)
       /\ \A s \in NestedColumns(dcol), g \in UBOutcomes :
            ListOfSize(column_to_elixir_list(s, g), Size(s))
  /\ dtop.st = "ok" => \A i \in 1..Len(dtop.v) : ~HoldsError(dtop.v[i])

C28_Witness ==
  /\ dcol.code = "Tuple"
  /\ Len(dcol.elems) = 3
  /\ dcol.elems[2].code = "Nullable"
  /\ dcol.size = 2
  /\ NestedColumns(dcol) # Range(dcol.elems)
  /\ dlist.st = "ok"
  /\ Len(dlist.v[2]) = 2
  /\ dtop.st = "ok"
  /\ Len(dtop.v) = 2

-----------------------------------------------------------------------------
(* The frame of a bind.                                                    *)

\* the binding a bind of this kind leaves for its value
BoundValueOk(op, value, held) ==
  CASE op = "NULL" -> held = QueryParamValue
    [] op = "String" -> held = QueryParamText(value)
    [] op \in {"UInt64", "Int64", "Int32", "UInt32", "DateTime", "Date",
               "DateTime64"} -> held = QueryParamText(to_string(value))
    [] OTHER -> held[1] = "text"

\* one bind call: the template and the bindings of the other names stay,
\* and the name bound holds the new value alone, or nothing changes when
\* the bind raises
C29_BindStep ==
  (query.st = "created" /\ bind_ret'.op # "none") =>
    /\ query'.st = "created"
    /\ query'.sql = query.sql
    /\ \A m \in Names \ {bind_ret'.name} :
         BindingsOf(query', m) = BindingsOf(query, m)
    /\ IF bind_ret'.ret = MakeAtom("ok")
       THEN /\ Cardinality(BindingsOf(query', bind_ret'.name)) = 1
            /\ \A held \in BindingsOf(query', bind_ret'.name) :
                 BoundValueOk(bind_ret'.op, bind_ret'.value, held)
       ELSE query' = query

-----------------------------------------------------------------------------
(* One Query used by two parameterized selects one after the other: the    *)
(* second call starts when the first has returned or raised.               *)

InitSuccessive ==
  /\ InitConcurrent
  /\ \A e \in Execs : conc.ex[e].kind = "param"

\* the calls made before call e have ended
EarlierCallsDone(e) == \A d \in Execs : d < e => ExecDone(conc.ex[d])

NextSuccessive ==
  \E e \in Execs :
    /\ EarlierCallsDone(e)
    /\ (OnData(e) \/ SelectStart(e) \/ Deliver(e) \/ Return(e))

SpecSuccessive == InitSuccessive /\ [][NextSuccessive]_vars

\* what a call on the stream returns or raises when it runs alone
AloneResult(shape) ==
  IF shape = "rows" THEN client_select(stream, <<>>)
  ELSE client_select_cols(stream, <<>>, <<>>, TRUE)

\* C30: when two parameterized selects use one Query one after the other,
\* the execution of each call runs with the callback that call registered,
\* every block is appended to the accumulators of the call it was delivered
\* for, no callback of an ended call is invoked, and what a call returned
\* stays what the call alone returns, whatever the other call does
C30_SuccessiveSelectsIndependent ==
  /\ \A e \in Execs :
       conc.ex[e].pc = "selecting" =>
         /\ conc.ex[e].snap = e
         /\ conc.cb = e
         /\ FrameAlive(conc.ex[conc.ex[e].snap])
  /\ \A p \in conc.log : p[1] = p[2]
  /\ \A e \in Execs :
       ExecDone(conc.ex[e]) => conc.ex[e].result = AloneResult(conc.ex[e].shape)

C30_Witness ==
  /\ conc.ex[1].pc = "returned"
  /\ conc.ex[2].pc = "returned"
  /\ conc.ex[1].shape = "rows"
  /\ conc.ex[2].shape = "cols"
  /\ conc.cb = 2
  /\ conc.log = {<<1, 1>>, <<2, 2>>}
  /\ Len(stream) = 2
  /\ Len(conc.ex[1].result[2]) > 2

====
